---- MODULE Spec2Model ----
(***************************************************************************)
(* A state-machine model of kerykeion's KerykeionChartSVG                  *)
(* (src/kerykeion/charts/kerykeion_chart_svg.py): the constructor, the     *)
(* element balance calculator, the template dictionary assembly and the    *)
(* three in-memory render operations.                                      *)
(*                                                                         *)
(* Conventions.  A Python value that may be None is a sequence of length   *)
(* at most one (<<>> is None).  A Python str that the code slices or       *)
(* splits (the location) is a sequence of one-character strings; a str     *)
(* the code only copies or compares is a TLA+ string.  The instance is the *)
(* record self; self.assigned is the set of attributes the constructor     *)
(* has assigned so far, so that a constructor that raised leaves the       *)
(* attributes after the raise unassigned.                                  *)
(***************************************************************************)
EXTENDS Integers, Sequences, FiniteSets, TLC

VARIABLES
    cfg,        \* the constructor's arguments and the collaborators' data
    status,     \* "new" | "ready" | "failed": position of the caller
    error,      \* the exception the constructor raised, "" when none
    self,       \* the KerykeionChartSVG instance
    rendered,   \* call signature -> what the latest such call returned
    nrenders,   \* how many render calls were made
    calls,      \* the calls of set_output_directory and of the write methods
    files,      \* the files written, in the order of the writes
    events      \* what the write methods did, step by step, in its order

vars == <<cfg, status, error, self, rendered, nrenders, calls, files, events>>

(***************************************************************************)
(* Bounds of the model.                                                    *)
(***************************************************************************)
MaxRenders == 2
MaxSegs == 3
MaxAspects == 2

(***************************************************************************)
(* Program constants.                                                      *)
(***************************************************************************)
BASIC_CHART_VIEWBOX == "0 0 820 550.0"
WIDE_CHART_VIEWBOX == "0 0 1200 546.0"
TRANSIT_CHART_WITH_TABLE_VIWBOX == "0 0 960 546.0"
DEFAULT_HEIGHT == 550
DEFAULT_FULL_WIDTH == 1200
DEFAULT_NATAL_WIDTH == 820
DEFAULT_FULL_WIDTH_WITH_TABLE == 960
PLANET_IN_ZODIAC_EXTRA_POINTS == 10
MAIN_RADIUS == 240
LOCATION_MAX_LEN == 35

ChartTypes == {"Natal", "ExternalNatal", "Transit", "Synastry", "Composite"}

\* get_args(KerykeionChartTheme): the theme names the package ships.
AllowedThemes == {"classic", "dark", "dark-high-contrast", "light"}

\* DEFAULT_ACTIVE_ASPECTS, by name.
DEFAULT_ACTIVE_ASPECTS ==
    {"conjunction", "opposition", "trine", "sextile", "square", "quintile"}

ZODIAC == <<
    [name |-> "Ari", element |-> "fire"],
    [name |-> "Tau", element |-> "earth"],
    [name |-> "Gem", element |-> "air"],
    [name |-> "Can", element |-> "water"],
    [name |-> "Leo", element |-> "fire"],
    [name |-> "Vir", element |-> "earth"],
    [name |-> "Lib", element |-> "air"],
    [name |-> "Sco", element |-> "water"],
    [name |-> "Sag", element |-> "fire"],
    [name |-> "Cap", element |-> "earth"],
    [name |-> "Aqu", element |-> "air"],
    [name |-> "Pis", element |-> "water"] >>

(***************************************************************************)
(* Generic helpers.                                                        *)
(***************************************************************************)
Range(s) == {s[i] : i \in 1..Len(s)}

Rep(ch, n) == [i \in 1..n |-> ch]

Reverse(s) == [i \in 1..Len(s) |-> s[Len(s) + 1 - i]]

\* s[:n] of Python.
Prefix(s, n) == IF Len(s) <= n THEN s ELSE SubSeq(s, 1, n)

\* str.lower() on the celestial point names of the settings.
Lower(name) ==
    CASE name = "Sun" -> "sun"
      [] name = "Moon" -> "moon"
      [] name = "Mercury" -> "mercury"
      [] name = "Mean_Node" -> "mean_node"
      [] OTHER -> name

\* The text of themes/<theme>.css, named by the file it is read from.
ThemeCss(theme) ==
    CASE theme = "classic" -> "<classic.css>"
      [] theme = "dark" -> "<dark.css>"
      [] theme = "dark-high-contrast" -> "<dark-high-contrast.css>"
      [] theme = "light" -> "<light.css>"
      [] OTHER -> "<missing.css>"

(***************************************************************************)
(* The collaborators (outside this file): aspect detection.  The pool is   *)
(* the list of geometric relationships the ephemeris data holds; the       *)
(* aspect classes keep those between active points whose kind is among the *)
(* active aspects, and record whose points the two ends are.               *)
(***************************************************************************)
RelevantAspects(pool, first, second, active_points, active_aspects) ==
    LET kept == SelectSeq(pool, LAMBDA a:
                    /\ a.p1_name \in Range(active_points)
                    /\ a.p2_name \in Range(active_points)
                    /\ a.aspect \in active_aspects)
    IN [i \in 1..Len(kept) |->
          [p1_name |-> kept[i].p1_name, p1_owner |-> first.name,
           p2_name |-> kept[i].p2_name, p2_owner |-> second.name,
           aspect |-> kept[i].aspect]]

NatalAspects(pool, user, active_points, active_aspects) ==
    RelevantAspects(pool, user, user, active_points, active_aspects)

SynastryAspects(pool, first, second, active_points, active_aspects) ==
    RelevantAspects(pool, first, second, active_points, active_aspects)

(***************************************************************************)
(* KerykeionChartSVG.__init__                                              *)
(***************************************************************************)
PointNames == {"sun", "moon", "mercury", "mean_node"}

NoSubject ==
    [kind |-> "none", name |-> "", city |-> <<>>, lat |-> 0, lng |-> 0,
     points |-> [n \in PointNames |->
                   [name |-> n, sign_num |-> 0, abs_pos |-> 0]],
     seventh_house |-> 0, parts |-> <<>>,
     year |-> 0, month |-> 0, day |-> 0, hour |-> 0, minute |-> 0,
     zodiac_type |-> "", sidereal_mode |-> "",
     houses_system_identifier |-> "", houses_system_name |-> "",
     perspective_type |-> "",
     lunar_phase |-> [moon_phase |-> 0, moon_phase_name |-> "",
                      degrees_between_s_m |-> 0]]

EmptySelf ==
    [assigned |-> {},
     output_directory |-> "",
     template |-> <<>>,
     chart_type |-> "",
     active_points |-> <<>>,
     active_aspects |-> {},
     language_settings |-> {},
     planets_settings |-> <<>>,
     aspects_settings |-> <<>>,
     user |-> NoSubject,
     t_user |-> NoSubject,
     available_planets_setting |-> <<>>,
     available_kerykeion_celestial_points |-> <<>>,
     t_available_kerykeion_celestial_points |-> <<>>,
     aspects_list |-> <<>>,
     double_chart_aspect_grid_type |-> "",
     height |-> 0,
     width |-> 0,
     location |-> <<>>,
     geolat |-> [num |-> 0, den |-> 1],
     geolon |-> [num |-> 0, den |-> 1],
     t_name |-> "",
     main_radius |-> 0,
     first_circle_radius |-> 0,
     second_circle_radius |-> 0,
     third_circle_radius |-> 0,
     fire |-> 0,
     earth |-> 0,
     air |-> 0,
     water |-> 0,
     color_style_tag |-> ""]

Raised(exc, s) == [error |-> exc, self |-> s]
Returned(s) == [error |-> "", self |-> s]

\* A selection in the order of the caller's list.
AvailablePlanetsSettingCallerOrder(planets_settings, active_points) ==
    LET named == SelectSeq(active_points, LAMBDA name:
                    \E i \in 1..Len(planets_settings) :
                        planets_settings[i].name = name)
    IN [k \in 1..Len(named) |->
          [planets_settings[CHOOSE i \in 1..Len(planets_settings) :
                               planets_settings[i].name = named[k]]
             EXCEPT !.is_active = TRUE]]

\* lines 223-230: the settings' bodies named in active_points, settings order.
AvailablePlanetsSetting(planets_settings, active_points) ==
    LET kept == SelectSeq(planets_settings,
                          LAMBDA body: body.name \in Range(active_points))
    IN [i \in 1..Len(kept) |-> [kept[i] EXCEPT !.is_active = TRUE]]

\* lines 232-239 and 278-280: subject.get(name.lower()) for each of them.
AvailableCelestialPoints(subject, available) ==
    [i \in 1..Len(available) |-> subject.points[Lower(available[i].name)]]

\* line 228: body["is_active"] = True is set on the settings' own
\* dictionaries, which planets_settings holds too.
PlanetsSettingsAfterSelection(planets_settings, active_points) ==
    [i \in 1..Len(planets_settings) |->
        IF planets_settings[i].name \in Range(active_points)
        THEN [planets_settings[i] EXCEPT !.is_active = TRUE]
        ELSE planets_settings[i]]

\* Path.home()
HomeDirectory == "~"

\* lines 212-215: `if new_output_directory:` (None and "" are falsy)
OutputDirectory(new_output_directory) ==
    IF new_output_directory # <<>> /\ new_output_directory[1] # ""
    THEN new_output_directory[1]
    ELSE HomeDirectory

\* lines 206-239
CtorSettingsAndPoints(c) ==
    LET available == AvailablePlanetsSetting(c.settings.celestial_points,
                                             c.active_points)
    IN [EmptySelf EXCEPT
          !.output_directory = OutputDirectory(c.new_output_directory),
          !.assigned = {"output_directory",
                        "active_points", "active_aspects", "language_settings",
                        "planets_settings", "aspects_settings", "chart_type",
                        "user", "available_planets_setting",
                        "available_kerykeion_celestial_points"},
          !.active_points = c.active_points,
          !.active_aspects = c.active_aspects,
          !.language_settings = c.settings.language,
          !.planets_settings =
              PlanetsSettingsAfterSelection(c.settings.celestial_points,
                                            c.active_points),
          !.aspects_settings = c.settings.aspects,
          !.chart_type = c.chart_type,
          !.user = c.first_obj,
          !.available_planets_setting = available,
          !.available_kerykeion_celestial_points =
              AvailableCelestialPoints(c.first_obj, available)]

\* A constructor that requires the second subject of a Transit chart only.
SecondObjMissingTransitOnly(c) ==
    c.second_obj = <<>> /\ c.chart_type = "Transit"

\* line 251: `if not second_obj`
SecondObjMissing(c) == c.second_obj = <<>>

\* A constructor that accepts any first object for a Composite chart.
NotCompositeModelUnchecked(c) == FALSE

\* line 283: `if not isinstance(first_obj, CompositeSubjectModel)`
NotCompositeModel(c) == c.first_obj.kind # "CompositeSubjectModel"

\* lines 241-286
CtorAspects(c, s) ==
    IF s.chart_type \in {"Natal", "ExternalNatal"} THEN
        Returned([s EXCEPT
            !.assigned = @ \cup {"aspects_list"},
            !.aspects_list = NatalAspects(c.aspect_pool, s.user,
                                          c.active_points, c.active_aspects)])
    ELSE IF s.chart_type \in {"Transit", "Synastry"} THEN
        IF SecondObjMissing(c) THEN
            Raised("KerykeionException", s)
        ELSE IF c.second_obj = <<>> THEN
            \* SynastryAspects reads the subject it is given: None has no
            \* attribute (not reached while the guard above stands).
            Raised("AttributeError", [s EXCEPT !.assigned = @ \cup {"t_user"}])
        ELSE
            LET t_user == c.second_obj[1]
                aspects ==
                    IF s.chart_type = "Transit"
                    THEN SynastryAspects(c.aspect_pool, t_user, s.user,
                                         c.active_points, c.active_aspects)
                    ELSE SynastryAspects(c.aspect_pool, s.user, t_user,
                                         c.active_points, c.active_aspects)
            IN Returned([s EXCEPT
                   !.assigned = @ \cup {"t_user", "aspects_list",
                                        "t_available_kerykeion_celestial_points"},
                   !.t_user = t_user,
                   !.aspects_list = aspects,
                   !.t_available_kerykeion_celestial_points =
                       AvailableCelestialPoints(t_user,
                                                s.available_planets_setting)])
    ELSE IF s.chart_type = "Composite" THEN
        IF NotCompositeModel(c) THEN
            Raised("KerykeionException", s)
        ELSE
            Returned([s EXCEPT
                !.assigned = @ \cup {"aspects_list"},
                !.aspects_list = NatalAspects(c.aspect_pool, s.user,
                                              c.active_points,
                                              DEFAULT_ACTIVE_ASPECTS)])
    ELSE Returned(s)

\* lines 291-298
CtorWidth(chart_type, grid_type) ==
    IF chart_type = "Synastry" \/ chart_type = "Transit" THEN DEFAULT_FULL_WIDTH
    ELSE IF grid_type = "table" /\ chart_type = "Transit"
    THEN DEFAULT_FULL_WIDTH_WITH_TABLE
    ELSE DEFAULT_NATAL_WIDTH

\* Radii with the second and third of the ExternalNatal chart exchanged.
CtorRadiiExchanged(chart_type) ==
    IF chart_type = "ExternalNatal" THEN <<56, 112, 92>> ELSE <<0, 36, 120>>

\* lines 319-323: (first, second, third) circle radius
CtorRadii(chart_type) ==
    IF chart_type = "ExternalNatal" THEN <<56, 92, 112>> ELSE <<0, 36, 120>>

\* lines 288-323
CtorLayout(c, s) ==
    LET s1 == [s EXCEPT
                 !.assigned = @ \cup {"double_chart_aspect_grid_type",
                                      "height", "width"},
                 !.double_chart_aspect_grid_type =
                     c.double_chart_aspect_grid_type,
                 !.height = DEFAULT_HEIGHT,
                 !.width = CtorWidth(s.chart_type,
                                     c.double_chart_aspect_grid_type)]
        located == {"location", "geolat", "geolon"}
        radii == CtorRadii(s.chart_type)
        WithRadii(t) ==
            [t EXCEPT
               !.assigned = @ \cup {"main_radius", "first_circle_radius",
                                    "second_circle_radius",
                                    "third_circle_radius"},
               !.main_radius = MAIN_RADIUS,
               !.first_circle_radius = radii[1],
               !.second_circle_radius = radii[2],
               !.third_circle_radius = radii[3]]
    IN
    IF s1.chart_type \in {"Natal", "ExternalNatal", "Synastry"} THEN
        Returned(WithRadii([s1 EXCEPT
            !.assigned = @ \cup located,
            !.location = s1.user.city,
            !.geolat = [num |-> s1.user.lat, den |-> 1],
            !.geolon = [num |-> s1.user.lng, den |-> 1]]))
    ELSE IF s1.chart_type = "Composite" THEN
        \* user.first_subject: only a CompositeSubjectModel has the attribute
        \* (it always has while the guard of line 283 stands).
        IF Len(s1.user.parts) < 2
        THEN Raised("AttributeError",
                    [s1 EXCEPT !.assigned = @ \cup {"location"},
                               !.location = <<>>])
        ELSE Returned(WithRadii([s1 EXCEPT
            !.assigned = @ \cup located,
            !.location = <<>>,
            !.geolat = [num |-> s1.user.parts[1].lat + s1.user.parts[2].lat,
                        den |-> 2],
            !.geolon = [num |-> s1.user.parts[1].lng + s1.user.parts[2].lng,
                        den |-> 2]]))
    ELSE \* Transit
        LET s2 == [s1 EXCEPT
                     !.assigned = @ \cup located,
                     !.location = s1.t_user.city,
                     !.geolat = [num |-> s1.t_user.lat, den |-> 1],
                     !.geolon = [num |-> s1.t_user.lng, den |-> 1]]
        IN IF "transit_name" \notin s2.language_settings
           THEN Raised("KeyError", s2)
           ELSE Returned(WithRadii([s2 EXCEPT
                    !.assigned = @ \cup {"t_name"},
                    !.t_name = "transit_name"]))

(***************************************************************************)
(* KerykeionChartSVG._calculate_elements_points_from_planets               *)
(***************************************************************************)
\* A loop that adds the bonus at every match instead of setting it.
RECURSIVE ExtraPointsAccumulated(_, _, _, _)
ExtraPointsAccumulated(related_zodiac_signs, cz, e, extra_points) ==
    IF e > Len(related_zodiac_signs) THEN extra_points
    ELSE ExtraPointsAccumulated(related_zodiac_signs, cz, e + 1,
                     IF related_zodiac_signs[e] = cz
                     THEN extra_points + PLANET_IN_ZODIAC_EXTRA_POINTS
                     ELSE extra_points)

\* A loop that never gives the bonus.
ExtraPointsNever(related_zodiac_signs, cz, e, extra_points) == 0

\* lines 446-450: the loop over related_zodiac_signs, from index e on.
RECURSIVE ExtraPoints(_, _, _, _)
ExtraPoints(related_zodiac_signs, cz, e, extra_points) ==
    IF e > Len(related_zodiac_signs) THEN extra_points
    ELSE ExtraPoints(related_zodiac_signs, cz, e + 1,
                     IF related_zodiac_signs[e] = cz
                     THEN PLANET_IN_ZODIAC_EXTRA_POINTS
                     ELSE extra_points)

\* lines 437-440: the signs the element calculator reads.
PointsSign(s) ==
    [i \in 1..Len(s.available_planets_setting) |->
        s.user.points[Lower(s.available_planets_setting[i].name)].sign_num]

\* lines 452-463: one point's score added to its sign's element.
AddToElement(s, ele, points) ==
    IF ele = "fire" THEN [s EXCEPT !.fire = @ + points]
    ELSE IF ele = "earth" THEN [s EXCEPT !.earth = @ + points]
    ELSE IF ele = "air" THEN [s EXCEPT !.air = @ + points]
    ELSE IF ele = "water" THEN [s EXCEPT !.water = @ + points]
    ELSE s

\* lines 442-463: the loop over the available points, from index i on.
RECURSIVE ElementsLoop(_, _, _)
ElementsLoop(s, points_sign, i) ==
    IF i > Len(s.available_planets_setting) THEN s
    ELSE
        LET body == s.available_planets_setting[i]
            cz == points_sign[i]
            extra_points == ExtraPoints(body.related_zodiac_signs, cz, 1, 0)
            ele == ZODIAC[points_sign[i] + 1].element
        IN ElementsLoop(AddToElement(s, ele, body.element_points + extra_points),
                        points_sign, i + 1)

\* lines 406-463
CalculateElementsPointsFromPlanets(s) == ElementsLoop(s, PointsSign(s), 1)

\* lines 325-332
CtorElements(s) ==
    CalculateElementsPointsFromPlanets(
        [s EXCEPT !.assigned = @ \cup {"fire", "earth", "air", "water"},
                  !.fire = 0, !.earth = 0, !.air = 0, !.water = 0])

\* A theme check that forgets `theme is not None`.
ThemeUnavailableNoneRejected(theme) ==
    theme = <<>> \/ theme[1] \notin AllowedThemes

\* line 335: `theme not in get_args(KerykeionChartTheme) and theme is not None`
ThemeUnavailable(theme) == theme # <<>> /\ theme[1] \notin AllowedThemes

\* lines 340-354
SetUpTheme(s, theme) ==
    [s EXCEPT !.assigned = @ \cup {"color_style_tag"},
              !.color_style_tag = IF theme = <<>> THEN ""
                                  ELSE ThemeCss(theme[1])]

\* lines 334-338
CtorTheme(c, s) ==
    IF ThemeUnavailable(c.theme) THEN Raised("KerykeionException", s)
    ELSE Returned(SetUpTheme(s, c.theme))

\* lines 168-338: the constructor, its statements in their order.
KerykeionChartSVGInit(c) ==
    LET r1 == CtorAspects(c, CtorSettingsAndPoints(c)) IN
    IF r1.error # "" THEN r1
    ELSE LET r2 == CtorLayout(c, r1.self) IN
         IF r2.error # "" THEN r2
         ELSE CtorTheme(c, CtorElements(r2.self))

(***************************************************************************)
(* KerykeionChartSVG._draw_zodiac_circle_slices                            *)
(***************************************************************************)
\* get_args(Sign): the twelve signs, in the order of the ZODIAC table.
Signs == [i \in 1..Len(ZODIAC) |-> ZODIAC[i].name]

\* draw_zodiac_slice (charts_utils): one slice, a function of its arguments.
DrawZodiacSlice(c1, chart_type, seventh_house_degree_ut, num, r, style, type) ==
    [c1 |-> c1, chart_type |-> chart_type,
     seventh_house_degree_ut |-> seventh_house_degree_ut, num |-> num,
     r |-> r, style |-> style, type |-> type]

\* A loop that numbers the signs from 1.
ZodiacSlicesLoopFromOne(s, r, i, output) ==
    [k \in 1..Len(Signs) |->
        DrawZodiacSlice(s.first_circle_radius, s.chart_type,
                        s.user.seventh_house, k, r,
                        <<"zodiac_bg", k>>, Signs[k])]

\* lines 393-402: the loop over enumerate(sings), from the i-th sign on
\* (i counts from 0, as enumerate does).
RECURSIVE ZodiacSlicesLoop(_, _, _, _)
ZodiacSlicesLoop(s, r, i, output) ==
    IF i >= Len(Signs) THEN output
    ELSE ZodiacSlicesLoop(s, r, i + 1,
            output \o <<DrawZodiacSlice(s.first_circle_radius, s.chart_type,
                                         s.user.seventh_house, i, r,
                                         <<"zodiac_bg", i>>, Signs[i + 1])>>)

\* lines 381-404
DrawZodiacCircleSlices(s, r) == ZodiacSlicesLoop(s, r, 0, <<>>)

(***************************************************************************)
(* KerykeionChartSVG._draw_all_aspects_lines and                           *)
(* _draw_all_transit_aspects_lines                                         *)
(***************************************************************************)
\* draw_aspect_line (charts_utils): one chord, a function of its arguments.
DrawAspectLine(r, ar, aspect, color, seventh_house_degree_ut) ==
    [r |-> r, ar |-> ar, aspect |-> aspect, color |-> color,
     seventh_house_degree_ut |-> seventh_house_degree_ut]

\* lines 479 and 504:
\* next((a["color"] for a in aspects_settings if a["name"] == name), None)
AspectColor(aspects_settings, aspect_name) ==
    LET hits == {i \in 1..Len(aspects_settings) :
                    aspects_settings[i].name = aspect_name}
    IN IF hits = {} THEN <<>>
       ELSE <<aspects_settings[CHOOSE i \in hits : \A j \in hits : i <= j].color>>

\* A test that takes every configured color, the empty string too.
TruthyNotNone(aspect_color) == aspect_color # <<>>

\* lines 480 and 505: `if aspect_color:` (None and "" are falsy)
Truthy(aspect_color) == aspect_color # <<>> /\ aspect_color[1] # ""

\* A loop that leaves after the first chord it draws.
AspectsLinesLoopFirstOnly(s, r, ar, i, out) ==
    LET colored == {j \in i..Len(s.aspects_list) :
                      Truthy(AspectColor(s.aspects_settings,
                                         s.aspects_list[j].aspect))}
    IN IF colored = {} THEN out
       ELSE LET j == CHOOSE j \in colored : \A k \in colored : j <= k
            IN out \o <<DrawAspectLine(r, ar, s.aspects_list[j],
                             AspectColor(s.aspects_settings,
                                         s.aspects_list[j].aspect)[1],
                             s.user.seventh_house)>>

\* lines 476-488: the loop over aspects_list, from index i on.
RECURSIVE AspectsLinesLoop(_, _, _, _, _)
AspectsLinesLoop(s, r, ar, i, out) ==
    IF i > Len(s.aspects_list) THEN out
    ELSE
        LET aspect == s.aspects_list[i]
            aspect_color == AspectColor(s.aspects_settings, aspect.aspect)
        IN AspectsLinesLoop(s, r, ar, i + 1,
              IF Truthy(aspect_color)
              THEN out \o <<DrawAspectLine(r, ar, aspect, aspect_color[1],
                                           s.user.seventh_house)>>
              ELSE out)

\* lines 465-488
DrawAllAspectsLines(s, r, ar) == AspectsLinesLoop(s, r, ar, 1, <<>>)

\* lines 501-513: the loop over aspects_list, from index i on.
RECURSIVE TransitAspectsLinesLoop(_, _, _, _, _)
TransitAspectsLinesLoop(s, r, ar, i, out) ==
    IF i > Len(s.aspects_list) THEN out
    ELSE
        LET aspect == s.aspects_list[i]
            aspect_color == AspectColor(s.aspects_settings, aspect.aspect)
        IN TransitAspectsLinesLoop(s, r, ar, i + 1,
              IF Truthy(aspect_color)
              THEN out \o <<DrawAspectLine(r, ar, aspect, aspect_color[1],
                                           s.user.seventh_house)>>
              ELSE out)

\* lines 490-513
DrawAllTransitAspectsLines(s, r, ar) ==
    TransitAspectsLinesLoop(s, r, ar, 1, <<>>)

(***************************************************************************)
(* KerykeionChartSVG._create_template_dictionary                           *)
(***************************************************************************)
\* language_settings.get(key, default): the pack's string, else the literal.
LangGet(language_settings, key, default) ==
    IF key \in language_settings
    THEN [from |-> "language_settings", text |-> key]
    ELSE [from |-> "default", text |-> default]

\* A dispatch that gives the table preset to both dual charts.
ViewboxTableForDual(s) ==
    IF s.chart_type \in {"Natal", "ExternalNatal", "Composite"}
    THEN BASIC_CHART_VIEWBOX
    ELSE IF s.double_chart_aspect_grid_type = "table"
    THEN TRANSIT_CHART_WITH_TABLE_VIWBOX
    ELSE WIDE_CHART_VIEWBOX

\* lines 535-541
Viewbox(s) ==
    IF s.chart_type \in {"Natal", "ExternalNatal", "Composite"}
    THEN BASIC_CHART_VIEWBOX
    ELSE IF s.double_chart_aspect_grid_type = "table" /\ s.chart_type = "Transit"
    THEN TRANSIT_CHART_WITH_TABLE_VIWBOX
    ELSE WIDE_CHART_VIEWBOX

\* language_settings[key]: the pack's string (a missing key is a KeyError,
\* see SubscriptReadsBefore and SubscriptReadsAfter).
Lang(key) == [from |-> "language_settings", text |-> key]

\* The empty dictionary.
NoSlot == [key \in {} |-> ""]

\* A title whose Transit date is the first subject's.
StringTitleFirstSubjectDate(s) ==
    IF s.chart_type = "Synastry" THEN
        [stringTitle |-> <<s.user.name, " ", Lang("and_word"), " ", s.t_user.name>>]
    ELSE IF s.chart_type = "Transit" THEN
        [stringTitle |-> <<Lang("transits"), " ", ToString(s.user.day), "/",
                           ToString(s.user.month), "/", ToString(s.user.year)>>]
    ELSE IF s.chart_type \in {"Natal", "ExternalNatal"} THEN
        [stringTitle |-> <<s.user.name>>]
    ELSE IF s.chart_type = "Composite" THEN
        [stringTitle |-> <<s.user.parts[1].name, " ", Lang("and_word"), " ",
                           s.user.parts[2].name>>]
    ELSE NoSlot

\* lines 573-581: the pieces of the title; no slot for any other chart type.
StringTitle(s) ==
    IF s.chart_type = "Synastry" THEN
        [stringTitle |-> <<s.user.name, " ", Lang("and_word"), " ", s.t_user.name>>]
    ELSE IF s.chart_type = "Transit" THEN
        [stringTitle |-> <<Lang("transits"), " ", ToString(s.t_user.day), "/",
                           ToString(s.t_user.month), "/", ToString(s.t_user.year)>>]
    ELSE IF s.chart_type \in {"Natal", "ExternalNatal"} THEN
        [stringTitle |-> <<s.user.name>>]
    ELSE IF s.chart_type = "Composite" THEN
        [stringTitle |-> <<s.user.parts[1].name, " ", Lang("and_word"), " ",
                           s.user.parts[2].name>>]
    ELSE NoSlot

\* A string shown as it is, not looked up: the same characters as the
\* default of a .get of them.
Unlocalized(text) == [from |-> "default", text |-> text]

\* name.lower().replace(" ", "_") on the names the subjects carry.
LanguageKey(name) ==
    CASE name = "Waxing Gibbous" -> "waxing_gibbous"
      [] name = "Full Moon" -> "full_moon"
      [] name = "Last Quarter" -> "last_quarter"
      [] name = "Apparent Geocentric" -> "apparent_geocentric"
      [] name = "Heliocentric" -> "heliocentric"
      [] OTHER -> name

\* swe.get_ayanamsa_name(getattr(swe, "SIDM_" + sidereal_mode)): the name the
\* ephemeris library has for the mode.
AyanamsaName(sidereal_mode) == [from |-> "swe", text |-> "SIDM_" \o sidereal_mode]

\* lines 583-589
ZodiacInfo(s) ==
    IF s.user.zodiac_type = "Tropic"
    THEN <<LangGet(s.language_settings, "zodiac", "Zodiac"), ": ",
           LangGet(s.language_settings, "tropical", "Tropical")>>
    ELSE <<LangGet(s.language_settings, "ayanamsa", "Ayanamsa"), ": ",
           AyanamsaName(s.user.sidereal_mode)>>

\* str.lower() of a looked-up string.
Lowered(string) == [from |-> string.from, text |-> string.text, lower |-> TRUE]

\* lines 591-605: the pieces of the five bottom-left lines.
BottomLeft(s) ==
    LET lang == s.language_settings
        lunar_phase == LangGet(lang, "lunar_phase", "Lunar Phase")
        day == LangGet(lang, "day", "Day")
    IN
    [bottom_left_0 |->
        <<LangGet(lang, "houses_system_" \o s.user.houses_system_identifier,
                  s.user.houses_system_name),
          " ", LangGet(lang, "houses", "Houses")>>,
     bottom_left_1 |-> ZodiacInfo(s)]
    @@
    (IF s.chart_type \in {"Natal", "ExternalNatal", "Synastry"} THEN
        [bottom_left_2 |-> <<lunar_phase, " ", Lowered(day), ": ",
                             ToString(s.user.lunar_phase.moon_phase)>>,
         bottom_left_3 |->
            <<lunar_phase, ": ",
              LangGet(lang, LanguageKey(s.user.lunar_phase.moon_phase_name),
                      s.user.lunar_phase.moon_phase_name)>>,
         bottom_left_4 |->
            <<LangGet(lang, LanguageKey(s.user.perspective_type),
                      s.user.perspective_type)>>]
     ELSE IF s.chart_type = "Transit" THEN
        [bottom_left_2 |-> <<lunar_phase, ": ", day, " ",
                             ToString(s.t_user.lunar_phase.moon_phase)>>,
         bottom_left_3 |->
            <<lunar_phase, ": ",
              Unlocalized(s.t_user.lunar_phase.moon_phase_name)>>,
         bottom_left_4 |->
            <<LangGet(lang, LanguageKey(s.t_user.perspective_type),
                      s.t_user.perspective_type)>>]
     ELSE IF s.chart_type = "Composite" THEN
        [bottom_left_2 |-> <<Unlocalized(s.user.parts[1].perspective_type)>>,
         bottom_left_3 |->
            <<LangGet(lang, "composite_chart", "Composite Chart"), " - ",
              LangGet(lang, "midpoints", "Midpoints")>>,
         bottom_left_4 |-> <<>>]
     ELSE NoSlot)

\* lines 551-560 and 569: which drawer makes the aspect summary, and from what.
MakeAspectGrid(s) ==
    IF s.chart_type \in {"Transit", "Synastry"} THEN
        IF s.double_chart_aspect_grid_type = "list" THEN
            [drawer |-> "draw_transit_aspect_list",
             title |-> IF s.chart_type = "Synastry"
                       THEN LangGet(s.language_settings, "couple_aspects",
                                    "Couple Aspects")
                       ELSE LangGet(s.language_settings, "transit_aspects",
                                    "Transit Aspects"),
             aspects |-> s.aspects_list,
             at |-> <<>>]
        ELSE
            [drawer |-> "draw_transit_aspect_grid",
             title |-> [from |-> "none", text |-> ""],
             aspects |-> s.aspects_list,
             at |-> <<550, 450>>]
    ELSE
        [drawer |-> "draw_aspect_grid",
         title |-> [from |-> "none", text |-> ""],
         aspects |-> s.aspects_list,
         at |-> <<>>]

\* lines 562 and 571
MakeAspects(s) ==
    IF s.chart_type \in {"Transit", "Synastry"}
    THEN DrawAllTransitAspectsLines(s, s.main_radius, s.main_radius - 160)
    ELSE DrawAllAspectsLines(s, s.main_radius,
                             s.main_radius - s.third_circle_radius)

(***************************************************************************)
(* draw_planets (outside this file): the placement of the glyphs on a      *)
(* ring, as the specification describes it.  The glyphs are sorted by      *)
(* display angle; a pass walks the ring and pushes the later glyph of a    *)
(* pair forward by what the pair lacks of the minimum separation, the      *)
(* first glyph after the last included; passes repeat until no pair is     *)
(* too close or the ceiling is reached.                                    *)
(***************************************************************************)
MinSeparation == 3
MaxPasses == 2

\* The angle of a point on the wheel, counted from the seventh house.
DisplayAngle(abs_pos, seventh_house_degree_ut) ==
    (abs_pos + 360 - seventh_house_degree_ut) % 360

\* The glyph of a point: its stem ends at the point's own angle.
Glyph(point, seventh_house_degree_ut) ==
    [name |-> point.name,
     stem |-> DisplayAngle(point.abs_pos, seventh_house_degree_ut),
     placed |-> DisplayAngle(point.abs_pos, seventh_house_degree_ut)]

RECURSIVE SortByAngle(_)
SortByAngle(glyphs) ==
    IF glyphs = <<>> THEN <<>>
    ELSE LET n == Len(glyphs)
             sorted == SortByAngle(SubSeq(glyphs, 1, n - 1))
             k == Cardinality({i \in 1..(n - 1) :
                                 sorted[i].placed <= glyphs[n].placed})
         IN SubSeq(sorted, 1, k) \o <<glyphs[n]>> \o SubSeq(sorted, k + 1, n - 1)

\* A check of the pairs along the walk only, not of the last with the first.
GapsOkAlongWalk(glyphs) ==
    \A i \in 2..Len(glyphs) :
        glyphs[i].placed - glyphs[i - 1].placed >= MinSeparation

\* No two neighbours on the ring are closer than the minimum.
GapsOk(glyphs) ==
    /\ \A i \in 2..Len(glyphs) :
          glyphs[i].placed - glyphs[i - 1].placed >= MinSeparation
    /\ Len(glyphs) > 1 =>
          glyphs[1].placed + 360 - glyphs[Len(glyphs)].placed >= MinSeparation

\* The walk from the i-th glyph on: the later of two close glyphs is pushed.
RECURSIVE ForwardWalk(_, _)
ForwardWalk(glyphs, i) ==
    IF i > Len(glyphs) THEN glyphs
    ELSE ForwardWalk(
            IF glyphs[i].placed - glyphs[i - 1].placed < MinSeparation
            THEN [glyphs EXCEPT ![i].placed =
                                   glyphs[i - 1].placed + MinSeparation]
            ELSE glyphs,
            i + 1)

\* One pass: the walk, then the first glyph against the last.
ResolutionPass(glyphs) ==
    LET walked == ForwardWalk(glyphs, 2)
        n == Len(walked)
    IN IF n > 1 /\ walked[1].placed + 360 - walked[n].placed < MinSeparation
       THEN [walked EXCEPT ![1].placed =
                               walked[n].placed + MinSeparation - 360]
       ELSE walked

RECURSIVE ResolveCollisions(_, _)
ResolveCollisions(glyphs, passes) ==
    IF GapsOk(glyphs) \/ passes = MaxPasses
    THEN [glyphs |-> glyphs, passes |-> passes, resolved |-> GapsOk(glyphs)]
    ELSE ResolveCollisions(ResolutionPass(glyphs), passes + 1)

PlaceRing(points, seventh_house_degree_ut) ==
    ResolveCollisions(
        SortByAngle([i \in 1..Len(points) |->
                        Glyph(points[i], seventh_house_degree_ut)]), 0)

\* draw_planets: a ring for the first subject's points and, on the Transit
\* and Synastry charts, another for the second subject's.
DrawPlanets(points, second_subject_points, chart_type, seventh_house_degree_ut) ==
    [first_ring |-> PlaceRing(points, seventh_house_degree_ut),
     second_ring |->
        IF chart_type \in {"Transit", "Synastry"}
        THEN <<PlaceRing(second_subject_points, seventh_house_degree_ut)>>
        ELSE <<>>]

\* lines 728-749
MakePlanets(s) ==
    IF s.chart_type \in {"Transit", "Synastry"}
    THEN DrawPlanets(s.available_kerykeion_celestial_points,
                     s.t_available_kerykeion_celestial_points,
                     s.chart_type, s.user.seventh_house)
    ELSE DrawPlanets(s.available_kerykeion_celestial_points, <<>>,
                     s.chart_type, s.user.seventh_house)

\* str.split(","): the segments between the commas.
RECURSIVE SplitLoop(_, _)
SplitLoop(str, from) ==
    LET commas == {i \in from..Len(str) : str[i] = ","} IN
    IF commas = {} THEN <<SubSeq(str, from, Len(str))>>
    ELSE LET next == CHOOSE i \in commas : \A j \in commas : i <= j
         IN <<SubSeq(str, from, next - 1)>> \o SplitLoop(str, next + 1)

Split(str) == SplitLoop(str, 1)

Ellipsis == <<".", ".", ".">>

\* An abbreviation that joins the first segment and the second.
LocationStringSecondSegment(location) ==
    IF Len(location) > LOCATION_MAX_LEN THEN
        LET split_location == Split(location) IN
        IF Len(split_location) > 1 THEN
            LET joined == split_location[1] \o <<",", " ">> \o split_location[2]
            IN IF Len(joined) > LOCATION_MAX_LEN
               THEN Prefix(joined, LOCATION_MAX_LEN) \o Ellipsis
               ELSE joined
        ELSE Prefix(location, LOCATION_MAX_LEN) \o Ellipsis
    ELSE location

\* lines 620-629: the location string of the top_left_1 slot.
LocationString(location) ==
    IF Len(location) > LOCATION_MAX_LEN THEN
        LET split_location == Split(location) IN
        IF Len(split_location) > 1 THEN
            LET joined == split_location[1] \o <<",", " ">>
                          \o split_location[Len(split_location)]
            IN IF Len(joined) > LOCATION_MAX_LEN
               THEN Prefix(joined, LOCATION_MAX_LEN) \o Ellipsis
               ELSE joined
        ELSE Prefix(location, LOCATION_MAX_LEN) \o Ellipsis
    ELSE location

\* datetime.fromisoformat(iso).strftime('%Y-%m-%d %H:%M'), named by its source.
LocalDateTime(subject) == <<"local datetime of", subject.name>>

\* A slot that abbreviates the location on every chart type.
TopLeft1LocationAlways(s) == LocationString(s.location)

\* lines 617-629
TopLeft1(s) ==
    IF s.chart_type = "Composite" THEN LocalDateTime(s.user.parts[1])
    ELSE LocationString(s.location)

\* An assembly whose chart name line has no Composite branch.
TopLeft0WithoutComposite(s) ==
    IF s.chart_type \in {"Synastry", "Transit"}
    THEN [top_left_0 |-> <<s.user.name, ":">>]
    ELSE IF s.chart_type \in {"Natal", "ExternalNatal"}
    THEN [top_left_0 |-> <<Lang("info"), ":">>]
    ELSE NoSlot

\* lines 631-637
TopLeft0(s) ==
    IF s.chart_type \in {"Synastry", "Transit"}
    THEN [top_left_0 |-> <<s.user.name, ":">>]
    ELSE IF s.chart_type \in {"Natal", "ExternalNatal"}
    THEN [top_left_0 |-> <<Lang("info"), ":">>]
    ELSE IF s.chart_type = "Composite"
    THEN [top_left_0 |-> <<s.user.parts[1].name>>]
    ELSE NoSlot

\* A number that is not a fraction, as one.
Whole(n) == [num |-> n, den |-> 1]

\* convert_latitude_coordinate_to_string and
\* convert_longitude_coordinate_to_string (charts_utils): a string, a
\* function of the coordinate and of the two labels.
ConvertCoordinate(axis, coord, positive_label, negative_label) ==
    [axis |-> axis, coord |-> coord, positive_label |-> positive_label,
     negative_label |-> negative_label]

\* f"{n:02d}" for n >= 0
TwoDigits(n) == IF n < 10 THEN "0" \o ToString(n) ELSE ToString(n)

\* lines 639-655
TopLeft3To5(s) ==
    IF s.chart_type = "Synastry" THEN
        [top_left_3 |-> <<s.t_user.name, ": ">>,
         top_left_4 |-> s.t_user.city,
         top_left_5 |-> <<ToString(s.t_user.year), "-", ToString(s.t_user.month),
                          "-", ToString(s.t_user.day), " ",
                          TwoDigits(s.t_user.hour), ":",
                          TwoDigits(s.t_user.minute)>>]
    ELSE IF s.chart_type = "Composite" THEN
        [top_left_3 |-> <<s.user.parts[2].name>>,
         top_left_4 |-> LocalDateTime(s.user.parts[2]),
         top_left_5 |->
            <<ConvertCoordinate("latitude", Whole(s.user.parts[2].lat),
                                Lang("north_letter"), Lang("south_letter")),
              " / ",
              ConvertCoordinate("longitude", Whole(s.user.parts[2].lng),
                                Lang("east_letter"), Lang("west_letter"))>>]
    ELSE
        [top_left_3 |->
            <<Lang("latitude"), ": ",
              ConvertCoordinate("latitude", s.geolat, Lang("north"),
                                Lang("south"))>>,
         top_left_4 |->
            <<Lang("longitude"), ": ",
              ConvertCoordinate("longitude", s.geolon, Lang("east"),
                                Lang("west"))>>,
         top_left_5 |->
            <<Lang("type"), ": ",
              LangGet(s.language_settings, s.chart_type, s.chart_type)>>]

\* lines 803-806: the local date-time with its offset from UTC,
\* '%Y-%m-%d %H:%M [+hh:mm]', named by its source.
LocalDateTimeWithOffset(subject) ==
    <<"local datetime and offset of", subject.name>>

\* lines 795-806
TopLeft2(s) ==
    IF s.chart_type = "Composite" THEN
        <<ConvertCoordinate("latitude", Whole(s.user.parts[1].lat),
                            Lang("north_letter"), Lang("south_letter")),
          " ",
          ConvertCoordinate("longitude", Whole(s.user.parts[1].lng),
                            Lang("east_letter"), Lang("west_letter"))>>
    ELSE LocalDateTimeWithOffset(s.user)

\* Rounding that takes a tie up.
RoundedPercentageHalfUp(x, total) == (2 * 100 * x + total) \div (2 * total)

\* int(round(100 * x / total)) for total # 0: Python 3 rounds a tie to even.
RoundedPercentage(x, total) ==
    LET n == 100 * x
        q == n \div total
        r == n % total
    IN IF 2 * r < total THEN q
       ELSE IF 2 * r > total THEN q + 1
       ELSE IF q % 2 = 0 THEN q ELSE q + 1

\* The language keys read by subscript (KeyError when absent) before the
\* element percentages, in the order of lines 573-712.
SubscriptReadsBefore(s) ==
    (IF s.chart_type \in {"Synastry", "Composite"} THEN <<"and_word">>
     ELSE IF s.chart_type = "Transit" THEN <<"transits">> ELSE <<>>)
    \o (IF s.chart_type \in {"Natal", "ExternalNatal"} THEN <<"info">> ELSE <<>>)
    \o (IF s.chart_type = "Synastry" THEN <<>>
        ELSE IF s.chart_type = "Composite"
        THEN <<"north_letter", "south_letter", "east_letter", "west_letter">>
        ELSE <<"north", "south", "east", "west", "latitude", "longitude", "type">>)
    \o <<"cusp">>

\* ... and after them, lines 759-800.
SubscriptReadsAfter(s) ==
    <<"fire", "earth", "air", "water">>
    \o (IF s.chart_type = "Transit" THEN <<"transit_name">> ELSE <<>>)
    \o (IF s.chart_type = "Composite" THEN <<"and_word">> ELSE <<>>)
    \o <<"planets_and_house", "celestial_points">>
    \o (IF s.chart_type = "Composite"
        THEN <<"north_letter", "south_letter", "east_letter", "west_letter">>
        ELSE <<>>)

MissingKey(s, reads) == \E i \in 1..Len(reads) : reads[i] \notin s.language_settings

\* A total that leaves the water points out.
TotalWithoutWater(s) == s.fire + s.earth + s.air

\* line 752: total
Total(s) == s.fire + s.water + s.earth + s.air

\* lines 751-762: the four element strings.
ElementStrings(s) ==
    LET total == Total(s) IN
    [fire_string |-> [label |-> "fire",
                      percentage |-> RoundedPercentage(s.fire, total)],
     earth_string |-> [label |-> "earth",
                       percentage |-> RoundedPercentage(s.earth, total)],
     air_string |-> [label |-> "air",
                     percentage |-> RoundedPercentage(s.air, total)],
     water_string |-> [label |-> "water",
                       percentage |-> RoundedPercentage(s.water, total)]]

\* The drawers of charts_utils: each a string, a function of its arguments
\* (the colors passed are left out).
Drawn(drawer, arguments) == [drawer |-> drawer, arguments |-> arguments]

\* lines 543-549 and 563-568
RingsAndCircles(s) ==
    IF s.chart_type \in {"Transit", "Synastry"} THEN
        [transitRing |-> Drawn("draw_transit_ring", <<s.main_radius>>),
         degreeRing |-> Drawn("draw_transit_ring_degree_steps",
                              <<s.main_radius, s.user.seventh_house>>),
         first_circle |-> Drawn("draw_first_circle",
                                <<s.main_radius, s.chart_type>>),
         second_circle |-> Drawn("draw_second_circle",
                                 <<s.main_radius, s.chart_type>>),
         third_circle |-> Drawn("draw_third_circle",
                                <<s.main_radius, s.chart_type,
                                  s.third_circle_radius>>)]
    ELSE
        [transitRing |-> "",
         degreeRing |-> Drawn("draw_degree_ring",
                              <<s.main_radius, s.first_circle_radius,
                                s.user.seventh_house>>),
         first_circle |-> Drawn("draw_first_circle",
                                <<s.main_radius, s.chart_type,
                                  s.first_circle_radius>>),
         second_circle |-> Drawn("draw_second_circle",
                                 <<s.main_radius, s.chart_type,
                                   s.second_circle_radius>>),
         third_circle |-> Drawn("draw_third_circle",
                                <<s.main_radius, s.chart_type,
                                  s.third_circle_radius>>)]

\* calculate_moon_phase_chart_params (charts_utils): the three parameters
\* of the icon, each a function of the two arguments.
CalculateMoonPhaseChartParams(degrees_between_sun_and_moon, latitude) ==
    [parameter \in {"lunar_phase_rotate", "circle_center_x", "circle_radius"} |->
        [parameter |-> parameter,
         degrees_between_sun_and_moon |-> degrees_between_sun_and_moon,
         latitude |-> latitude]]

\* lines 607-615
LunarPhaseIcon(s) ==
    LET moon_phase_dict ==
            CalculateMoonPhaseChartParams(
                s.user.lunar_phase.degrees_between_s_m, s.geolat)
    IN [lunar_phase_rotate |-> moon_phase_dict["lunar_phase_rotate"],
        lunar_phase_circle_center_x |-> moon_phase_dict["circle_center_x"],
        lunar_phase_circle_radius |-> moon_phase_dict["circle_radius"]]

\* lines 678-726: get_houses_list is named by the subject it is given.
Houses(s) ==
    IF s.chart_type \in {"Transit", "Synastry"} THEN
        [makeHousesGrid |->
            Drawn("draw_house_grid",
                  <<<<"houses of", s.user.name>>, <<"houses of", s.t_user.name>>,
                    s.chart_type, Lang("cusp")>>),
         makeHouses |->
            Drawn("draw_houses_cusps_and_text_number",
                  <<s.main_radius, <<"houses of", s.user.name>>,
                    s.first_circle_radius, s.third_circle_radius, s.chart_type,
                    <<"houses of", s.t_user.name>>>>)]
    ELSE
        [makeHousesGrid |->
            Drawn("draw_house_grid",
                  <<<<"houses of", s.user.name>>, s.chart_type, Lang("cusp")>>),
         makeHouses |->
            Drawn("draw_houses_cusps_and_text_number",
                  <<s.main_radius, <<"houses of", s.user.name>>,
                    s.first_circle_radius, s.third_circle_radius,
                    s.chart_type>>)]

\* lines 764-793
PlanetGrid(s) ==
    IF s.chart_type \in {"Transit", "Synastry"} THEN
        LET second_subject_table_name ==
                IF s.chart_type = "Transit" THEN <<Lang("transit_name")>>
                ELSE <<s.t_user.name>>
        IN [makePlanetGrid |->
               Drawn("draw_planet_grid",
                     <<Lang("planets_and_house"), <<s.user.name>>,
                       s.available_kerykeion_celestial_points, s.chart_type,
                       Lang("celestial_points"), second_subject_table_name,
                       s.t_available_kerykeion_celestial_points>>)]
    ELSE
        LET subject_name ==
                IF s.chart_type = "Composite"
                THEN <<s.user.parts[1].name, " ", Lang("and_word"), " ",
                       s.user.parts[2].name>>
                ELSE <<s.user.name>>
        IN [makePlanetGrid |->
               Drawn("draw_planet_grid",
                     <<Lang("planets_and_house"), subject_name,
                       s.available_kerykeion_celestial_points, s.chart_type,
                       Lang("celestial_points")>>)]

\* lines 526-806: the dictionary, key by key as the branches assign it,
\* given that no statement raised.  (The color slots of lines 658-673 are
\* left out.)
TemplateSlots(s) ==
    [color_style_tag |-> s.color_style_tag,
     chart_height |-> s.height,
     chart_width |-> s.width,
     viewbox |-> Viewbox(s)]
    @@ RingsAndCircles(s)
    @@ [makeAspectGrid |-> MakeAspectGrid(s),
        makeAspects |-> MakeAspects(s)]
    @@ StringTitle(s)
    @@ BottomLeft(s)
    @@ LunarPhaseIcon(s)
    @@ [top_left_1 |-> TopLeft1(s)]
    @@ TopLeft0(s)
    @@ TopLeft3To5(s)
    @@ [makeZodiac |-> DrawZodiacCircleSlices(s, s.main_radius)]
    @@ Houses(s)
    @@ [makePlanets |-> MakePlanets(s)]
    @@ ElementStrings(s)
    @@ PlanetGrid(s)
    @@ [top_left_2 |-> TopLeft2(s)]

\* An assembly that shows 0% for every element when the total is 0.
CreateTemplateDictionaryGuarded(s) ==
    IF s.fire + s.water + s.earth + s.air = 0
    THEN [error |-> "",
          td |-> <<TemplateSlots([s EXCEPT !.fire = 0, !.earth = 0, !.air = 0,
                                           !.water = 1])>>]
    ELSE [error |-> "", td |-> <<TemplateSlots(s)>>]

\* lines 515-808: the exception raised ("" when none) and the dictionary.
CreateTemplateDictionary(s) ==
    IF MissingKey(s, SubscriptReadsBefore(s)) THEN [error |-> "KeyError", td |-> <<>>]
    ELSE IF Total(s) = 0
    THEN [error |-> "ZeroDivisionError", td |-> <<>>]
    ELSE IF MissingKey(s, SubscriptReadsAfter(s)) THEN [error |-> "KeyError", td |-> <<>>]
    ELSE [error |-> "", td |-> <<TemplateSlots(s)>>]

\* An assembly that adds up the element points again.
AfterCreateTemplateDictionaryRecounting(s) ==
    CalculateElementsPointsFromPlanets(s)

\* An assembly that keeps the abbreviated location on the instance.
AfterCreateTemplateDictionaryCaching(s) ==
    [s EXCEPT !.location = LocationString(s.location)]

\* lines 515-808: the instance after the call (the method assigns no attribute).
AfterCreateTemplateDictionary(s) == s

(***************************************************************************)
(* makeTemplate, makeWheelOnlyTemplate, makeAspectGridOnlyTemplate         *)
(***************************************************************************)
\* What a render call gives its caller: an exception or an SVG string.  The
\* string is named by the template file, the slot values substituted into it
\* and the post-processing applied (lines 839-846, 895-902, 956-963).
RenderRaised(exc) == [error |-> exc, svg |-> <<>>]

RenderReturned(template, slots, minify, remove_css_variables) ==
    [error |-> "",
     svg |-> <<[template |-> template, slots |-> slots,
                css_variables_inlined |-> remove_css_variables,
                minified |-> minify]>>]

\* lines 810-848: the redundant second assembly of line 837 included.
MakeTemplateCall(s, minify, remove_css_variables) ==
    LET first == CreateTemplateDictionary(s)
        s1 == AfterCreateTemplateDictionary(s)
        second == CreateTemplateDictionary(s1)
        s2 == AfterCreateTemplateDictionary(s1)
    IN IF first.error # "" THEN [result |-> RenderRaised(first.error), self |-> s1]
       ELSE IF second.error # ""
       THEN [result |-> RenderRaised(second.error), self |-> s2]
       ELSE [result |-> RenderReturned("chart.xml", first.td[1], minify,
                                       remove_css_variables),
             self |-> s2]

\* lines 874-904
MakeWheelOnlyTemplateCall(s, minify, remove_css_variables) ==
    LET made == CreateTemplateDictionary(s)
        s1 == AfterCreateTemplateDictionary(s)
    IN IF made.error # "" THEN [result |-> RenderRaised(made.error), self |-> s1]
       ELSE [result |-> RenderReturned("wheel_only.xml", made.td[1], minify,
                                       remove_css_variables),
             self |-> s1]

\* A grid-only render that follows the grid type, as the full render does.
AspectsGridOnlyByGridType(s) ==
    IF s.chart_type \in {"Transit", "Synastry"}
    THEN [MakeAspectGrid(s) EXCEPT !.at = <<>>]
    ELSE [drawer |-> "draw_aspect_grid",
          title |-> [from |-> "none", text |-> ""],
          aspects |-> s.aspects_list,
          at |-> <<50, 250>>]

\* lines 949-952: the grid of the aspect-grid-only render.
AspectsGridOnly(s) ==
    IF s.chart_type \in {"Transit", "Synastry"}
    THEN [drawer |-> "draw_transit_aspect_grid",
          title |-> [from |-> "none", text |-> ""],
          aspects |-> s.aspects_list,
          at |-> <<>>]
    ELSE [drawer |-> "draw_aspect_grid",
          title |-> [from |-> "none", text |-> ""],
          aspects |-> s.aspects_list,
          at |-> <<50, 250>>]

\* lines 929-965
MakeAspectGridOnlyTemplateCall(s, minify, remove_css_variables) ==
    LET made == CreateTemplateDictionary(s)
        s1 == AfterCreateTemplateDictionary(s)
    IN IF made.error # "" THEN [result |-> RenderRaised(made.error), self |-> s1]
       ELSE [result |->
                RenderReturned("aspect_grid_only.xml",
                               [made.td[1] EXCEPT
                                   !.makeAspectGrid = AspectsGridOnly(s1)],
                               minify, remove_css_variables),
             self |-> s1]

(***************************************************************************)
(* The state machine.                                                      *)
(***************************************************************************)
RenderOps == {"makeTemplate", "makeWheelOnlyTemplate",
              "makeAspectGridOnlyTemplate"}

Signatures == RenderOps \X BOOLEAN \X BOOLEAN

\* KerykeionChartSVG(first_obj, chart_type, second_obj, ...)
Construct ==
    /\ status = "new"
    /\ LET r == KerykeionChartSVGInit(cfg) IN
         /\ status' = IF r.error = "" THEN "ready" ELSE "failed"
         /\ error' = r.error
         /\ self' = r.self
    /\ UNCHANGED <<cfg, rendered, nrenders, calls, files, events>>

Render(op, call, minify, remove_css_variables) ==
    /\ status = "ready"
    /\ nrenders < MaxRenders
    /\ rendered' = [rendered EXCEPT
                       ![<<op, minify, remove_css_variables>>] = <<call.result>>]
    /\ self' = call.self
    /\ nrenders' = nrenders + 1
    /\ UNCHANGED <<cfg, status, error, calls, files, events>>

makeTemplate(minify, remove_css_variables) ==
    Render("makeTemplate",
           MakeTemplateCall(self, minify, remove_css_variables),
           minify, remove_css_variables)

makeWheelOnlyTemplate(minify, remove_css_variables) ==
    Render("makeWheelOnlyTemplate",
           MakeWheelOnlyTemplateCall(self, minify, remove_css_variables),
           minify, remove_css_variables)

makeAspectGridOnlyTemplate(minify, remove_css_variables) ==
    Render("makeAspectGridOnlyTemplate",
           MakeAspectGridOnlyTemplateCall(self, minify, remove_css_variables),
           minify, remove_css_variables)

(***************************************************************************)
(* set_output_directory, makeSVG, makeWheelOnlySVG, makeAspectGridOnlySVG  *)
(***************************************************************************)
\* lines 867, 922, 983: the pieces of the f-string that names the file.
ChartName(s, ending) == <<s.user.name, " - ", s.chart_type, ending>>

\* open(chartname, "w") and output_file.write(template): one file written.
WriteFile(directory, name, content) ==
    <<[directory |-> directory, name |-> name, content |-> content]>>

\* One step of a write method: the template call, open(chartname, "w"),
\* output_file.write(template) or print(f"SVG Generated Correctly in:
\* {chartname}"), with the exception it raised ("" when none) and the file
\* it is about (none for the template call).
Event(kind, exc, file) == [kind |-> kind, error |-> exc, file |-> file]

\* A write method that opens its file before it renders.
WriteCallOpenFirst(call, s, ending, filesystem) ==
    LET chartname == [directory |-> s.output_directory,
                      name |-> ChartName(s, ending)]
    IN IF call.result.error # ""
       THEN [error |-> call.result.error, self |-> s, writes |-> <<>>,
             events |-> <<Event("open", "", <<chartname>>),
                          Event("render", call.result.error, <<>>)>>]
       ELSE [error |-> "", self |-> s,
             writes |-> WriteFile(s.output_directory, ChartName(s, ending),
                                  call.result.svg[1]),
             events |-> <<Event("open", "", <<chartname>>),
                          Event("render", "", <<>>),
                          Event("write", "", <<chartname>>),
                          Event("print", "", <<chartname>>)>>]

\* lines 866-872, 921-927, 982-988: what a write call does after its
\* template call: the exception it raised ("" when none), the instance after
\* it, the files it wrote and its steps in their order.
\* open raises in a directory that cannot be written to, and write raises
\* on a device that is full; nothing catches either.
WriteCall(call, s, ending, filesystem) ==
    LET chartname == [directory |-> s.output_directory,
                      name |-> ChartName(s, ending)]
    IN IF call.result.error # "" THEN
           [error |-> call.result.error, self |-> s, writes |-> <<>>,
            events |-> <<Event("render", call.result.error, <<>>)>>]
       ELSE IF s.output_directory \in filesystem.unwritable THEN
           [error |-> "PermissionError", self |-> s, writes |-> <<>>,
            events |-> <<Event("render", "", <<>>),
                         Event("open", "PermissionError", <<chartname>>)>>]
       ELSE IF s.output_directory \in filesystem.full THEN
           [error |-> "OSError", self |-> s, writes |-> <<>>,
            events |-> <<Event("render", "", <<>>),
                         Event("open", "", <<chartname>>),
                         Event("write", "OSError", <<chartname>>)>>]
       ELSE
           [error |-> "", self |-> s,
            writes |-> WriteFile(s.output_directory, ChartName(s, ending),
                                 call.result.svg[1]),
            events |-> <<Event("render", "", <<>>),
                         Event("open", "", <<chartname>>),
                         Event("write", "", <<chartname>>),
                         Event("print", "", <<chartname>>)>>]

\* lines 850-872: the template is kept on the instance (line 866).
MakeSVGCall(s, minify, remove_css_variables, filesystem) ==
    LET call == MakeTemplateCall(s, minify, remove_css_variables) IN
    WriteCall(call,
              IF call.result.error # "" THEN call.self
              ELSE [call.self EXCEPT !.assigned = @ \cup {"template"},
                                     !.template = call.result.svg],
              " Chart.svg", filesystem)

\* A wheel-only write under the name of the full chart.
MakeWheelOnlySVGCallFullChartName(s, minify, remove_css_variables, filesystem) ==
    LET call == MakeWheelOnlyTemplateCall(s, minify, remove_css_variables)
    IN WriteCall(call, call.self, " Chart.svg", filesystem)

\* lines 906-927
MakeWheelOnlySVGCall(s, minify, remove_css_variables, filesystem) ==
    LET call == MakeWheelOnlyTemplateCall(s, minify, remove_css_variables)
    IN WriteCall(call, call.self, " Chart - Wheel Only.svg", filesystem)

\* lines 967-988
MakeAspectGridOnlySVGCall(s, minify, remove_css_variables, filesystem) ==
    LET call == MakeAspectGridOnlyTemplateCall(s, minify, remove_css_variables)
    IN WriteCall(call, call.self, " Chart - Aspect Grid Only.svg", filesystem)

WriteOps == {"makeSVG", "makeWheelOnlySVG", "makeAspectGridOnlySVG"}

\* lines 356-364
set_output_directory(dir_path) ==
    /\ status = "ready"
    /\ Len(calls) < MaxRenders
    /\ self' = [self EXCEPT !.output_directory = dir_path]
    /\ calls' = Append(calls, [op |-> "set_output_directory",
                               dir_path |-> dir_path, minify |-> FALSE,
                               remove_css_variables |-> FALSE, error |-> ""])
    /\ UNCHANGED <<cfg, status, error, rendered, nrenders, files, events>>

Write(op, call, minify, remove_css_variables) ==
    /\ status = "ready"
    /\ Len(calls) < MaxRenders
    /\ self' = call.self
    /\ files' = files \o call.writes
    /\ events' = events \o [i \in 1..Len(call.events) |->
                              [call |-> Len(calls) + 1, step |-> call.events[i]]]
    /\ calls' = Append(calls, [op |-> op, dir_path |-> "", minify |-> minify,
                               remove_css_variables |-> remove_css_variables,
                               error |-> call.error])
    /\ UNCHANGED <<cfg, status, error, rendered, nrenders>>

makeSVG(minify, remove_css_variables) ==
    Write("makeSVG", MakeSVGCall(self, minify, remove_css_variables, cfg.filesystem),
          minify, remove_css_variables)

makeWheelOnlySVG(minify, remove_css_variables) ==
    Write("makeWheelOnlySVG",
          MakeWheelOnlySVGCall(self, minify, remove_css_variables, cfg.filesystem),
          minify, remove_css_variables)

makeAspectGridOnlySVG(minify, remove_css_variables) ==
    Write("makeAspectGridOnlySVG",
          MakeAspectGridOnlySVGCall(self, minify, remove_css_variables, cfg.filesystem),
          minify, remove_css_variables)

InitWith(configurations) ==
    /\ cfg \in configurations
    /\ status = "new"
    /\ error = ""
    /\ self = EmptySelf
    /\ rendered = [sig \in Signatures |-> <<>>]
    /\ nrenders = 0
    /\ calls = <<>>
    /\ files = <<>>
    /\ events = <<>>

(***************************************************************************)
(* The inputs: subjects, settings and constructor arguments.               *)
(***************************************************************************)
\* A subject as this file reads it; sign_of gives each point's sign index.
Subject(name, city, lat, lng, sign_of, seventh_house, born, chart) ==
    [kind |-> "AstrologicalSubject", name |-> name, city |-> city,
     lat |-> lat, lng |-> lng,
     points |-> [n \in PointNames |->
                   [name |-> n, sign_num |-> sign_of[n],
                    abs_pos |-> 30 * sign_of[n] + 15]],
     seventh_house |-> seventh_house, parts |-> <<>>,
     year |-> born[1], month |-> born[2], day |-> born[3],
     hour |-> born[4], minute |-> born[5],
     zodiac_type |-> chart.zodiac_type, sidereal_mode |-> chart.sidereal_mode,
     houses_system_identifier |-> chart.houses_system_identifier,
     houses_system_name |-> chart.houses_system_name,
     perspective_type |-> chart.perspective_type,
     lunar_phase |-> chart.lunar_phase]

\* A CompositeSubjectModel: the midpoint chart of two subjects.
CompositeSubject(first_subject, second_subject, sign_of, seventh_house) ==
    [kind |-> "CompositeSubjectModel", name |-> "composite", city |-> <<>>,
     lat |-> 0, lng |-> 0,
     points |-> [n \in PointNames |->
                   [name |-> n, sign_num |-> sign_of[n],
                    abs_pos |-> 30 * sign_of[n] + 15]],
     seventh_house |-> seventh_house,
     parts |-> <<first_subject, second_subject>>,
     zodiac_type |-> first_subject.zodiac_type,
     sidereal_mode |-> first_subject.sidereal_mode,
     houses_system_identifier |-> first_subject.houses_system_identifier,
     houses_system_name |-> first_subject.houses_system_name,
     lunar_phase |-> [moon_phase |-> 22, moon_phase_name |-> "Last Quarter",
                      degrees_between_s_m |-> 270]]

\* The subject with its points at the given absolute degrees.
At(subject, abs_pos_of) ==
    [subject EXCEPT
       !.points = [n \in PointNames |->
                     [name |-> n, sign_num |-> abs_pos_of[n] \div 30,
                      abs_pos |-> abs_pos_of[n]]]]

SignsFrom(sun, d1, d2, d3) ==
    [n \in PointNames |->
        CASE n = "sun" -> sun
          [] n = "moon" -> (sun + d1) % 12
          [] n = "mercury" -> (sun + d2) % 12
          [] n = "mean_node" -> (sun + d3) % 12]

\* Every point one sign further: a different element for every point.
NextSigns(sign_of) == [n \in PointNames |-> (sign_of[n] + 1) % 12]

Letters == <<"a", "b", "c", "d", "e">>

\* A location with segments of the given lengths, separated by commas.
RECURSIVE LocationOf(_, _)
LocationOf(lens, i) ==
    IF i > Len(lens) THEN <<>>
    ELSE (IF i = 1 THEN <<>> ELSE <<",">>) \o Rep(Letters[i], lens[i])
         \o LocationOf(lens, i + 1)

SegLens == {0, 16, 17, 35, 36}

Locations ==
    {LocationOf(lens, 1) : lens \in UNION {[1..n -> SegLens] : n \in 1..MaxSegs}}

Liverpool == <<"L", "i", "v", "e", "r", "p", "o", "o", "l">>
NewYork == <<"N", "e", "w", " ", "Y", "o", "r", "k">>
LongCity == LocationOf(<<17, 17, 17>>, 1)

Body(id, name, element_points, related_zodiac_signs) ==
    [id |-> id, name |-> name, element_points |-> element_points,
     related_zodiac_signs |-> related_zodiac_signs, is_active |-> FALSE]

\* Celestial point settings: weights and ruling signs as shipped, and two
\* custom settings files.
ShippedPoints ==
    <<Body(0, "Sun", 40, <<4>>), Body(1, "Moon", 40, <<3>>),
      Body(2, "Mercury", 15, <<2, 5>>), Body(10, "Mean_Node", 0, <<>>)>>

CustomPointsA ==
    <<Body(0, "Sun", 5, <<4, 4>>), Body(1, "Moon", 5, <<>>),
      Body(2, "Mercury", 20, <<>>), Body(10, "Mean_Node", 0, <<0, 7>>)>>

CustomPointsB ==
    <<Body(0, "Sun", 15, <<>>), Body(1, "Moon", 35, <<>>),
      Body(2, "Mercury", 35, <<5, 2, 5>>), Body(10, "Mean_Node", 35, <<>>)>>

AspectSetting(name, color, degree) ==
    [name |-> name, color |-> color, degree |-> degree]

ShippedAspects ==
    <<AspectSetting("conjunction", "#5757e2", 0),
      AspectSetting("square", "#dc0000", 90),
      AspectSetting("quintile", "#1f99b3", 72)>>

\* Custom aspect settings: a kind left out, a kind with an empty color.
AspectsWithoutQuintile ==
    <<AspectSetting("conjunction", "#5757e2", 0),
      AspectSetting("square", "#dc0000", 90)>>

AspectsWithEmptyColor ==
    <<AspectSetting("conjunction", "", 0),
      AspectSetting("square", "#dc0000", 90),
      AspectSetting("quintile", "#1f99b3", 72)>>

AspectKinds == {"conjunction", "square", "quintile"}

FullLanguage ==
    {"and_word", "transits", "info", "north", "south", "east", "west",
     "north_letter", "south_letter", "east_letter", "west_letter",
     "latitude", "longitude", "type", "cusp", "fire", "earth", "air", "water",
     "transit_name", "planets_and_house", "celestial_points",
     "couple_aspects", "transit_aspects"}

Settings(celestial_points, aspects, language) ==
    [celestial_points |-> celestial_points, aspects |-> aspects,
     language |-> language]

AllPoints == <<"Sun", "Moon", "Mercury", "Mean_Node">>

Configuration(chart_type, first_obj, second_obj, theme, grid_type, active_points, active_aspects, settings, aspect_pool) ==
    [chart_type |-> chart_type, first_obj |-> first_obj,
     second_obj |-> second_obj, theme |-> theme,
     double_chart_aspect_grid_type |-> grid_type,
     active_points |-> active_points, active_aspects |-> active_aspects,
     settings |-> settings, aspect_pool |-> aspect_pool,
     new_output_directory |-> <<>>,
     filesystem |-> [unwritable |-> {}, full |-> {}]]

PoolAspect(p1_name, p2_name, aspect) ==
    [p1_name |-> p1_name, p2_name |-> p2_name, aspect |-> aspect]

SomePool ==
    <<PoolAspect("Sun", "Moon", "square"),
      PoolAspect("Sun", "Mercury", "quintile"),
      PoolAspect("Moon", "Mercury", "conjunction")>>

\* How a subject's chart was computed, and the lunar phase it found.
TropicalChart ==
    [zodiac_type |-> "Tropic", sidereal_mode |-> "",
     houses_system_identifier |-> "P", houses_system_name |-> "Placidus",
     perspective_type |-> "Apparent Geocentric",
     lunar_phase |-> [moon_phase |-> 11, moon_phase_name |-> "Waxing Gibbous",
                      degrees_between_s_m |-> 130]]

SiderealChart ==
    [zodiac_type |-> "Sidereal", sidereal_mode |-> "LAHIRI",
     houses_system_identifier |-> "W", houses_system_name |-> "Whole Sign",
     perspective_type |-> "Heliocentric",
     lunar_phase |-> [moon_phase |-> 15, moon_phase_name |-> "Full Moon",
                      degrees_between_s_m |-> 180]]

John(city, sign_of) ==
    Subject("John", city, 53, -3, sign_of, 120, <<1940, 10, 9, 18, 30>>,
            TropicalChart)
Paul(city, sign_of) ==
    Subject("Paul", city, 40, -74, sign_of, 215, <<1942, 6, 18, 14, 5>>,
            SiderealChart)
JohnAndPaul(city, sign_of) ==
    CompositeSubject(John(city, NextSigns(sign_of)),
                     Paul(Reverse(city), NextSigns(NextSigns(sign_of))),
                     sign_of, 300)

\* The first object passed for a chart type: a subject, and for Composite
\* also the model the type requires.  (A CompositeSubjectModel passed for
\* another chart type is not modelled.)
FirstObjects(chart_type, city, sign_of) ==
    {John(city, sign_of)}
    \cup (IF chart_type = "Composite" THEN {JohnAndPaul(city, sign_of)} ELSE {})

\* The arguments construction accepts as far as lines 250-286 go.
ValidFirstObject(chart_type, city, sign_of) ==
    IF chart_type = "Composite" THEN JohnAndPaul(city, sign_of)
    ELSE John(city, sign_of)

Themes == {<<>>, <<"classic">>, <<"dark">>, <<"neon">>}

\* Construction and rendering under every combination of chart type, first
\* object, second object, theme and grid type.
MainConfigurations ==
    UNION {
      {Configuration(ct, first, second, theme, grid, AllPoints, AspectKinds,
                     Settings(ShippedPoints, AspectsWithoutQuintile,
                              FullLanguage),
                     SomePool) :
          first \in FirstObjects(ct, LongCity, SignsFrom(4, 1, 2, 3)),
          second \in {<<>>, <<Paul(Reverse(LongCity), SignsFrom(0, 0, 0, 0))>>},
          theme \in Themes,
          grid \in {"list", "table"}} :
      ct \in ChartTypes}

Init == InitWith(MainConfigurations)

Next ==
    \/ Construct
    \/ \E minify \in BOOLEAN, remove_css_variables \in BOOLEAN :
          \/ makeTemplate(minify, remove_css_variables)
          \/ makeWheelOnlyTemplate(minify, remove_css_variables)
          \/ makeAspectGridOnlyTemplate(minify, remove_css_variables)

Spec == Init /\ [][Next]_vars

SignFamilies ==
    {SignsFrom(sun, d[1], d[2], d[3]) :
        sun \in 0..11, d \in {<<0, 0, 0>>, <<1, 2, 3>>, <<4, 1, 8>>}}

\* What callers pass as active_points: nothing, a name the settings do not
\* have, single points, and lists in an order of their own.
ActivePointLists ==
    {<<>>, <<"Pluto">>, <<"Sun">>, <<"Mean_Node">>, <<"Moon", "Sun">>,
     <<"Mercury", "Pluto", "Sun", "Mean_Node", "Moon">>}

\* The element balance: every chart type, the point settings, the signs of
\* the points and the active points vary; the second subject's points are
\* all in other signs than the first subject's.
ElementConfigurations ==
    {Configuration(ct, ValidFirstObject(ct, Liverpool, sign_of),
                   <<Paul(NewYork, NextSigns(sign_of))>>, <<"classic">>, "list",
                   active_points, AspectKinds,
                   Settings(points, ShippedAspects, FullLanguage), SomePool) :
        ct \in ChartTypes,
        sign_of \in SignFamilies,
        active_points \in ActivePointLists,
        points \in {ShippedPoints, CustomPointsA, CustomPointsB}}

\* The location slot: every chart type and every location of the family;
\* the second subject lives in the same location spelt backwards.
LocationConfigurations ==
    {Configuration(ct, ValidFirstObject(ct, city, SignsFrom(4, 1, 2, 3)),
                   <<Paul(Reverse(city), SignsFrom(0, 0, 0, 0))>>, <<"classic">>,
                   "list", AllPoints, AspectKinds,
                   Settings(ShippedPoints, ShippedAspects, FullLanguage),
                   SomePool) :
        ct \in ChartTypes, city \in Locations}

PoolAspects ==
    {PoolAspect(pair[1], pair[2], kind) :
        pair \in {<<"Sun", "Moon">>, <<"Moon", "Mercury">>},
        kind \in AspectKinds}

AspectPools == UNION {[1..n -> PoolAspects] : n \in 0..MaxAspects}

\* The aspect lines: every chart type, every list of aspects up to
\* MaxAspects, and aspect settings with all, some or none of the kinds
\* colored.
AspectConfigurations ==
    {Configuration(ct, ValidFirstObject(ct, Liverpool, SignsFrom(4, 1, 2, 3)),
                   <<Paul(NewYork, SignsFrom(0, 0, 0, 0))>>, <<"classic">>,
                   "list", AllPoints, AspectKinds,
                   Settings(ShippedPoints, aspects, FullLanguage), pool) :
        ct \in ChartTypes,
        aspects \in {ShippedAspects, AspectsWithoutQuintile,
                     AspectsWithEmptyColor, <<>>},
        pool \in AspectPools}

\* The render calls with their default flags.
NextDefaultFlags ==
    \/ Construct
    \/ makeTemplate(FALSE, FALSE)
    \/ makeWheelOnlyTemplate(FALSE, FALSE)
    \/ makeAspectGridOnlyTemplate(FALSE, FALSE)

(***************************************************************************)
(* Properties.                                                             *)
(***************************************************************************)
Constructed == status # "new"

NothingRendered == nrenders = 0 /\ \A sig \in Signatures : rendered[sig] = <<>>

RenderedSignatures == {sig \in Signatures : rendered[sig] # <<>>}

\* The results of the render calls that returned an SVG string.
ReturnedSvgs ==
    {rendered[sig][1].svg[1] : sig \in {x \in RenderedSignatures :
                                           rendered[x][1].error = ""}}

CompositeWithoutModel ==
    cfg.chart_type = "Composite" /\ cfg.first_obj.kind # "CompositeSubjectModel"

DoubleWithoutSecond ==
    cfg.chart_type \in {"Transit", "Synastry"} /\ cfg.second_obj = <<>>

\* C1: a Composite chart whose first object is not a CompositeSubjectModel
\* fails in the constructor with a KerykeionException, before the aspects,
\* the element points or the theme are computed; no render call is ever made
\* on it and no fragment is drawn.
C1_CompositeNeedsModel ==
    (Constructed /\ CompositeWithoutModel) =>
        /\ status = "failed"
        /\ error = "KerykeionException"
        /\ self.assigned \cap {"aspects_list", "width", "fire",
                               "color_style_tag"} = {}
        /\ NothingRendered

C1_Witness ==
    /\ status = "failed"
    /\ CompositeWithoutModel
    /\ "user" \in self.assigned

\* C2: a Transit or Synastry chart without a second subject fails in the
\* constructor with a KerykeionException, before the second subject is
\* stored or read and before the aspects are computed; no render call is
\* ever made on it.
C2_DoubleChartNeedsSecond ==
    (Constructed /\ DoubleWithoutSecond) =>
        /\ status = "failed"
        /\ error = "KerykeionException"
        /\ self.assigned \cap {"t_user", "aspects_list",
                               "t_available_kerykeion_celestial_points"} = {}
        /\ NothingRendered

C2_Witness ==
    /\ status = "failed"
    /\ cfg.chart_type = "Synastry"
    /\ cfg.second_obj = <<>>
    /\ "available_kerykeion_celestial_points" \in self.assigned

\* C3: for every chart type, a theme that is neither None nor an allowed
\* name makes the constructor fail with a KerykeionException; theme None is
\* never the reason of a failure, and the instance built with it has the
\* empty string as its style, which every render puts in the style slot.
C3_ThemeChecked ==
    Constructed =>
        /\ (cfg.theme # <<>> /\ cfg.theme[1] \notin AllowedThemes) =>
              (status = "failed" /\ error = "KerykeionException"
               /\ "color_style_tag" \notin self.assigned /\ NothingRendered)
        /\ (cfg.theme = <<>> /\ ~CompositeWithoutModel /\ ~DoubleWithoutSecond) =>
              /\ status = "ready"
              /\ "color_style_tag" \in self.assigned
              /\ self.color_style_tag = ""
              /\ \A svg \in ReturnedSvgs : svg.slots.color_style_tag = ""

C3_Witness ==
    /\ status = "failed"
    /\ cfg.theme = <<"neon">>
    /\ cfg.chart_type = "Transit"
    /\ {"fire", "t_user", "aspects_list"} \subseteq self.assigned

SpecElements == InitWith(ElementConfigurations) /\ [][NextDefaultFlags]_vars

Bodies == cfg.settings.celestial_points

\* The settings' bodies the caller made active.
ActiveBodies == {i \in 1..Len(Bodies) : Bodies[i].name \in Range(cfg.active_points)}

\* The sign of the first subject's point of that name.
FirstSubjectSign(i) == cfg.first_obj.points[Lower(Bodies[i].name)].sign_num

\* Aries..Pisces: fire, earth, air, water, repeating.
ElementOfSignIndex(i) ==
    CASE i % 4 = 0 -> "fire"
      [] i % 4 = 1 -> "earth"
      [] i % 4 = 2 -> "air"
      [] i % 4 = 3 -> "water"

InRelatedSign(i) == FirstSubjectSign(i) \in Range(Bodies[i].related_zodiac_signs)

ExpectedScore(i) ==
    Bodies[i].element_points + (IF InRelatedSign(i) THEN 10 ELSE 0)

RECURSIVE SumOfScores(_)
SumOfScores(indexes) ==
    IF indexes = {} THEN 0
    ELSE LET i == CHOOSE j \in indexes : TRUE
         IN ExpectedScore(i) + SumOfScores(indexes \ {i})

ExpectedElement(element) ==
    SumOfScores({i \in ActiveBodies :
                    ElementOfSignIndex(FirstSubjectSign(i)) = element})

ElementTotal == self.fire + self.earth + self.air + self.water

\* The four percentages a returned SVG shows.
Percentages(svg) ==
    <<svg.slots.fire_string.percentage,
      svg.slots.earth_string.percentage,
      svg.slots.air_string.percentage,
      svg.slots.water_string.percentage>>

Scores == <<self.fire, self.earth, self.air, self.water>>

\* C5: after construction, for every chart type, each of fire, earth, air
\* and water is the sum, over the active points whose first-subject sign has
\* that element (sign index mod 4), of the point's base weight plus 10 if
\* the sign is among the point's related signs (once, however often it is
\* listed); the second subject's signs do not count.
C5_ElementTotals ==
    status = "ready" =>
        /\ self.fire = ExpectedElement("fire")
        /\ self.earth = ExpectedElement("earth")
        /\ self.air = ExpectedElement("air")
        /\ self.water = ExpectedElement("water")

\* Two active points, one of them in a related sign that its settings list
\* twice, on a chart with a second subject.
C5_Witness ==
    /\ status = "ready"
    /\ cfg.chart_type = "Synastry"
    /\ Cardinality(ActiveBodies) >= 2
    /\ \E i \in ActiveBodies :
          /\ InRelatedSign(i)
          /\ \E e1, e2 \in 1..Len(Bodies[i].related_zodiac_signs) :
                /\ e1 # e2
                /\ Bodies[i].related_zodiac_signs[e1] = FirstSubjectSign(i)
                /\ Bodies[i].related_zodiac_signs[e2] = FirstSubjectSign(i)

\* C6 as claimed: whenever at least one point is active the sum of the four
\* element scores is strictly positive, and every displayed percentage is
\* in [0,100].
C6_PositiveWheneverActive ==
    status = "ready" =>
        /\ (ActiveBodies # {} => ElementTotal > 0)
        /\ \A svg \in ReturnedSvgs :
              \A k \in 1..4 : Percentages(svg)[k] \in 0..100

\* C6 as amended: the sum of the four element scores is strictly positive
\* exactly when some active point has a positive base weight or is in one of
\* its related signs (it is 0 when every active point has weight 0 and is
\* outside its related signs); every percentage a render displays is in
\* [0,100].
C6_PositiveWhenSomeScore ==
    status = "ready" =>
        /\ ElementTotal >= 0
        /\ ElementTotal > 0 <=>
              \E i \in ActiveBodies :
                  Bodies[i].element_points > 0 \/ InRelatedSign(i)
        /\ \A svg \in ReturnedSvgs :
              \A k \in 1..4 : Percentages(svg)[k] \in 0..100

\* A point of weight 0 scoring by its related sign alone, and displayed.
C6_Witness ==
    /\ status = "ready"
    /\ ActiveBodies # {}
    /\ \A i \in ActiveBodies : Bodies[i].element_points = 0
    /\ ElementTotal > 0
    /\ ReturnedSvgs # {}

NoActiveBody == ActiveBodies = {}

\* C7: with no active point construction succeeds, the element total is 0,
\* and each of the three render operations raises ZeroDivisionError and
\* returns no SVG string.
C7_NoActivePointDividesByZero ==
    (Constructed /\ NoActiveBody) =>
        /\ status = "ready"
        /\ ElementTotal = 0
        /\ \A sig \in RenderedSignatures :
              /\ rendered[sig][1].error = "ZeroDivisionError"
              /\ rendered[sig][1].svg = <<>>

\* Two different render operations called on such an instance.
C7_Witness ==
    /\ NoActiveBody
    /\ cfg.active_points # <<>>
    /\ nrenders = 2
    /\ Cardinality(RenderedSignatures) = 2
    /\ \A sig \in RenderedSignatures : rendered[sig][1].error = "ZeroDivisionError"

Distance(a, b) == IF a >= b THEN a - b ELSE b - a

\* C8 as claimed: every displayed percentage is 100*x/total rounded to the
\* nearest integer, a tie rounded up.
C8_RoundHalfUp ==
    \A svg \in ReturnedSvgs : \A k \in 1..4 :
        Percentages(svg)[k] = (200 * Scores[k] + ElementTotal) \div (2 * ElementTotal)

\* C8 as amended: every displayed percentage is the integer nearest to
\* 100*x/total, a tie (a fraction of exactly one half) going to the even
\* neighbour; the four values go to the slots as they are, whatever they
\* sum to.
C8_RoundHalfEven ==
    \A svg \in ReturnedSvgs : \A k \in 1..4 :
        LET p == Percentages(svg)[k]
            off == 2 * Distance(100 * Scores[k], p * ElementTotal)
        IN /\ off <= ElementTotal
           /\ off = ElementTotal => p % 2 = 0

\* A displayed tie, on a chart whose four percentages sum to 99.
C8_Witness ==
    \E svg \in ReturnedSvgs :
        /\ \E k \in 1..4 : (200 * Scores[k]) % (2 * ElementTotal) = ElementTotal
        /\ Percentages(svg)[1] + Percentages(svg)[2] + Percentages(svg)[3]
             + Percentages(svg)[4] = 99

SpecLocation == InitWith(LocationConfigurations) /\ [][NextDefaultFlags]_vars

CommaPositions(str) == {i \in 1..Len(str) : str[i] = ","}

Least(S) == CHOOSE i \in S : \A j \in S : i <= j
Greatest(S) == CHOOSE i \in S : \A j \in S : i >= j

\* What comes before the first comma, ", ", and what comes after the last.
FirstAndLastSegment(str) ==
    SubSeq(str, 1, Least(CommaPositions(str)) - 1) \o <<",", " ">>
    \o SubSeq(str, Greatest(CommaPositions(str)) + 1, Len(str))

\* C9: on a chart that is not Composite, top_left_1 is the location itself
\* when it has at most 35 characters; when it is longer and holds a comma,
\* its first segment, ", " and its last segment, cut to 35 characters
\* followed by "..." if that is still longer than 35; when it is longer and
\* holds no comma, its first 35 characters followed by "...".  The slot
\* never has more than 38 characters.
C9_LocationSlot ==
    \A svg \in ReturnedSvgs :
        cfg.chart_type # "Composite" =>
            LET location == self.location
                slot == svg.slots.top_left_1
            IN /\ Len(slot) <= 38
               /\ Len(location) <= 35 => slot = location
               /\ (Len(location) > 35 /\ CommaPositions(location) = {}) =>
                     slot = SubSeq(location, 1, 35) \o <<".", ".", ".">>
               /\ (Len(location) > 35 /\ CommaPositions(location) # {}) =>
                     LET joined == FirstAndLastSegment(location)
                     IN slot = IF Len(joined) > 35
                               THEN SubSeq(joined, 1, 35) \o <<".", ".", ".">>
                               ELSE joined

\* A Transit chart whose location has three segments and is abbreviated to
\* exactly 35 characters, without an ellipsis.
C9_Witness ==
    \E svg \in ReturnedSvgs :
        /\ cfg.chart_type = "Transit"
        /\ Cardinality(CommaPositions(self.location)) = 2
        /\ Len(self.location) > 35
        /\ Len(svg.slots.top_left_1) = 35
        /\ svg.slots.top_left_1 # SubSeq(self.location, 1, 35)

SpecAspects == InitWith(AspectConfigurations) /\ [][NextDefaultFlags]_vars

\* The kind is in the aspect settings, with a color that is not empty.
HasConfiguredColor(kind) ==
    \E a \in Range(self.aspects_settings) : a.name = kind /\ a.color # ""

ColoredAspects ==
    {i \in 1..Len(self.aspects_list) :
        HasConfiguredColor(self.aspects_list[i].aspect)}

\* C10: every render completes, and its aspect lines are exactly one chord
\* per aspect of the aspects list whose kind has a color in the aspect
\* settings, in the order of the list, each in the color of its kind; an
\* aspect whose kind has no color gets no chord.
C10_OneChordPerColoredAspect ==
    \A sig \in RenderedSignatures :
        /\ rendered[sig][1].error = ""
        /\ LET chords == rendered[sig][1].svg[1].slots.makeAspects IN
             /\ Len(chords) = Cardinality(ColoredAspects)
             /\ \A i \in ColoredAspects :
                   LET k == Cardinality({j \in ColoredAspects : j <= i}) IN
                     /\ chords[k].aspect = self.aspects_list[i]
                     /\ \E a \in Range(self.aspects_settings) :
                           /\ a.name = self.aspects_list[i].aspect
                           /\ a.color = chords[k].color

\* A Transit chart with two aspects, the first of a kind without color.
C10_Witness ==
    \E svg \in ReturnedSvgs :
        /\ cfg.chart_type = "Transit"
        /\ Len(self.aspects_list) = 2
        /\ ~HasConfiguredColor(self.aspects_list[1].aspect)
        /\ HasConfiguredColor(self.aspects_list[2].aspect)
        /\ Len(svg.slots.makeAspects) = 1

\* C11: the aspects handed to the grid or list drawer, in the full render
\* and in the aspect-grid-only render of every chart type, hold no aspect
\* whose kind has no color in the aspect settings.
C11_GridExcludesUncolored ==
    \A svg \in ReturnedSvgs :
        svg.template \in {"chart.xml", "aspect_grid_only.xml"} =>
            \A i \in 1..Len(svg.slots.makeAspectGrid.aspects) :
                HasConfiguredColor(svg.slots.makeAspectGrid.aspects[i].aspect)

\* The instance with its aspects list in reverse order.
WithReversedAspects == [self EXCEPT !.aspects_list = Reverse(self.aspects_list)]

\* C12: the aspect lines of every render of an instance are the same set of
\* chords, and the same set as the lines of the instance's aspects list
\* taken in reverse order.
C12_ChordsOrderIndependent ==
    Constructed =>
        /\ Range(MakeAspects(self)) = Range(MakeAspects(WithReversedAspects))
        /\ \A svg \in ReturnedSvgs :
              Range(svg.slots.makeAspects) = Range(MakeAspects(WithReversedAspects))

\* Two renders were made of a chart with two different colored aspects,
\* whose reversal gives the chords in another order.
C12_Witness ==
    /\ Cardinality(RenderedSignatures) = 2
    /\ \E svg \in ReturnedSvgs :
          /\ Len(svg.slots.makeAspects) = 2
          /\ svg.slots.makeAspects[1] # svg.slots.makeAspects[2]
          /\ svg.slots.makeAspects # MakeAspects(WithReversedAspects)

\* The language packs: the complete one, and each pack that lacks one string.
LanguagePacks == {FullLanguage} \cup {FullLanguage \ {key} : key \in FullLanguage}

LanguageConfigurations ==
    {Configuration(ct, ValidFirstObject(ct, Liverpool, SignsFrom(4, 1, 2, 3)),
                   <<Paul(NewYork, SignsFrom(0, 0, 0, 0))>>, <<"classic">>,
                   "list", AllPoints, AspectKinds,
                   Settings(ShippedPoints, ShippedAspects, language), SomePool) :
        ct \in ChartTypes, language \in LanguagePacks}

SpecLanguage == InitWith(LanguageConfigurations) /\ [][NextDefaultFlags]_vars

\* C13: with any one string missing from the language pack, the
\* construction completes and every render returns an SVG string.
C13_MissingStringNonFatal ==
    /\ status # "failed"
    /\ \A sig \in RenderedSignatures : rendered[sig][1].error = ""

\* C14: on every constructed chart, before and after any render calls,
\* first_circle_radius < second_circle_radius < third_circle_radius <
\* main_radius, main_radius is 240, and the first radius is other than 0
\* on the ExternalNatal chart only.
C14_RingGeometry ==
    status = "ready" =>
        /\ self.first_circle_radius < self.second_circle_radius
        /\ self.second_circle_radius < self.third_circle_radius
        /\ self.third_circle_radius < self.main_radius
        /\ self.main_radius = 240
        /\ self.first_circle_radius # 0 <=> self.chart_type = "ExternalNatal"

\* An ExternalNatal chart after two render calls.
C14_Witness ==
    /\ status = "ready"
    /\ self.chart_type = "ExternalNatal"
    /\ self.first_circle_radius > 0
    /\ nrenders = MaxRenders

SingleSubjectCharts == {"Natal", "ExternalNatal", "Composite"}

\* C15 as stated: the viewbox of every render is "0 0 820 550.0" on the
\* Natal, ExternalNatal and Composite charts, "0 0 960 546.0" on the Transit
\* and Synastry charts with grid type "table", and "0 0 1200 546.0" on the
\* Transit and Synastry charts with grid type "list".
C15_ViewboxByDualAndGrid ==
    \A svg \in ReturnedSvgs :
        svg.slots.viewbox =
            IF cfg.chart_type \in SingleSubjectCharts THEN "0 0 820 550.0"
            ELSE IF cfg.double_chart_aspect_grid_type = "table"
            THEN "0 0 960 546.0"
            ELSE "0 0 1200 546.0"

\* C15, amended: the viewbox of every render is "0 0 820 550.0" on the
\* Natal, ExternalNatal and Composite charts, "0 0 960 546.0" on the Transit
\* chart with grid type "table", and "0 0 1200 546.0" on the Transit chart
\* with grid type "list" and on the Synastry chart with either grid type.
C15_ViewboxTableForTransitOnly ==
    \A svg \in ReturnedSvgs :
        svg.slots.viewbox =
            IF cfg.chart_type \in SingleSubjectCharts THEN "0 0 820 550.0"
            ELSE IF cfg.chart_type = "Transit"
                    /\ cfg.double_chart_aspect_grid_type = "table"
            THEN "0 0 960 546.0"
            ELSE "0 0 1200 546.0"

\* A render of a Synastry chart with grid type "table".
C15_Witness ==
    \E svg \in ReturnedSvgs :
        /\ cfg.chart_type = "Synastry"
        /\ cfg.double_chart_aspect_grid_type = "table"
        /\ svg.slots.viewbox = "0 0 1200 546.0"

Directories == {"/charts", "/tmp"}

\* The write methods: every chart type, with the output directory not
\* given, given empty or given, and with all or none of the points active.
FileConfigurations ==
    {[Configuration(ct, ValidFirstObject(ct, Liverpool, SignsFrom(4, 1, 2, 3)),
                    <<Paul(NewYork, SignsFrom(0, 0, 0, 0))>>, <<"classic">>,
                    "list", active_points, AspectKinds,
                    Settings(ShippedPoints, ShippedAspects, FullLanguage),
                    SomePool)
        EXCEPT !.new_output_directory = directory] :
        ct \in ChartTypes, active_points \in {AllPoints, <<>>},
        directory \in {<<>>, <<"">>, <<"/charts">>}}

NextFiles ==
    \/ Construct
    \/ \E dir_path \in Directories : set_output_directory(dir_path)
    \/ \E minify \in BOOLEAN, remove_css_variables \in BOOLEAN :
          \/ makeSVG(minify, remove_css_variables)
          \/ makeWheelOnlySVG(minify, remove_css_variables)
          \/ makeAspectGridOnlySVG(minify, remove_css_variables)

SpecFiles == InitWith(FileConfigurations) /\ [][NextFiles]_vars

\* The directory of the latest set_output_directory call, else the one given
\* at construction, else the home directory.
RECURSIVE CurrentDirectory(_)
CurrentDirectory(n) ==
    IF n = 0 THEN
        IF cfg.new_output_directory \in {<<>>, <<"">>} THEN "~"
        ELSE cfg.new_output_directory[1]
    ELSE IF calls[n].op = "set_output_directory" THEN calls[n].dir_path
    ELSE CurrentDirectory(n - 1)

\* What the template operation of a write method returns on the instance.
TemplateResult(op, minify, remove_css_variables) ==
    CASE op = "makeSVG" ->
            MakeTemplateCall(self, minify, remove_css_variables).result
      [] op = "makeWheelOnlySVG" ->
            MakeWheelOnlyTemplateCall(self, minify, remove_css_variables).result
      [] op = "makeAspectGridOnlySVG" ->
            MakeAspectGridOnlyTemplateCall(self, minify,
                                           remove_css_variables).result

FileEnding(op) ==
    CASE op = "makeSVG" -> " Chart.svg"
      [] op = "makeWheelOnlySVG" -> " Chart - Wheel Only.svg"
      [] op = "makeAspectGridOnlySVG" -> " Chart - Aspect Grid Only.svg"

\* C16: a call of makeSVG, makeWheelOnlySVG or makeAspectGridOnlySVG whose
\* template operation returns writes exactly one file: in the current output
\* directory, named by the first subject's name, the chart type and the
\* ending of the method, holding the string the template operation returns
\* for the same flags.  (A call whose template operation raises writes none.)
C16_WritesOneFile ==
    [][(Len(calls') = Len(calls) + 1 /\ calls'[Len(calls')].op \in WriteOps) =>
         LET call == calls'[Len(calls')]
             result == TemplateResult(call.op, call.minify,
                                      call.remove_css_variables)
         IN IF result.error = ""
            THEN /\ call.error = ""
                 /\ files' = Append(files,
                      [directory |-> CurrentDirectory(Len(calls)),
                       name |-> <<cfg.first_obj.name, " - ", cfg.chart_type,
                                  FileEnding(call.op)>>,
                       content |-> result.svg[1]])
            ELSE files' = files]_vars

\* A wheel-only file written into a directory set after construction,
\* other than the one the construction chose.
C16_Witness ==
    /\ Len(files) = 1
    /\ Len(calls) = 2
    /\ calls[1].op = "set_output_directory"
    /\ calls[2].op = "makeWheelOnlySVG"
    /\ files[1].directory = calls[1].dir_path
    /\ files[1].directory # OutputDirectory(cfg.new_output_directory)
    /\ files[1].content.template = "wheel_only.xml"

\* Where the points stand, counted from the seventh house: crowded around
\* the angle 0 of the wheel, or apart.
Offsets == {359, 0, 1, 90, 180}

PositionsOf(seventh_house, offset_of) ==
    [n \in PointNames |-> (seventh_house + offset_of[n]) % 360]

\* The planet placement: every chart type and every way to put the first
\* subject's four points on the offsets; the second subject's points stand
\* at the same angles as some of the first's.
PlanetConfigurations ==
    {LET first == ValidFirstObject(ct, Liverpool, SignsFrom(4, 1, 2, 3)) IN
     Configuration(ct, At(first, PositionsOf(first.seventh_house, offset_of)),
                   <<At(Paul(NewYork, SignsFrom(0, 0, 0, 0)),
                        PositionsOf(first.seventh_house,
                                    [sun |-> 0, moon |-> 1, mercury |-> 359,
                                     mean_node |-> 90]))>>,
                   <<"classic">>, "list", AllPoints, AspectKinds,
                   Settings(ShippedPoints, ShippedAspects, FullLanguage),
                   SomePool) :
        ct \in ChartTypes, offset_of \in [PointNames -> Offsets]}

SpecPlanets == InitWith(PlanetConfigurations) /\ [][NextDefaultFlags]_vars

\* The rings of glyphs of a render.
Rings(svg) ==
    {svg.slots.makePlanets.first_ring}
    \cup Range(svg.slots.makePlanets.second_ring)

\* The angle between two directions of the wheel.
AngularSeparation(a, b) ==
    LET d == (a - b + 720) % 360 IN IF d <= 180 THEN d ELSE 360 - d

Separated(ring) ==
    \A i \in 1..Len(ring.glyphs), j \in 1..Len(ring.glyphs) :
        i # j => AngularSeparation(ring.glyphs[i].placed,
                                   ring.glyphs[j].placed) >= MinSeparation

\* The stems of a ring end at the true angles of the subject's points.
StemsRecover(ring, subject) ==
    /\ Len(ring.glyphs) = Len(self.available_planets_setting)
    /\ \A i \in 1..Len(ring.glyphs) :
          (ring.glyphs[i].stem + self.user.seventh_house) % 360
              = subject.points[ring.glyphs[i].name].abs_pos

SliceStart(slice) ==
    (30 * slice.num + 360 - slice.seventh_house_degree_ut) % 360

\* C18: in every render the zodiac wheel is twelve invocations of the slice
\* drawer, the i-th with sign index i - 1 and the i-th sign of Aries ..
\* Pisces, all anchored at the seventh house of the first subject; each
\* slice starts where the 30 degrees of the one before end, and the first
\* where those of the twelfth end, so the slices partition the circle.
C18_TwelveSlices ==
    \A svg \in ReturnedSvgs :
        LET slices == svg.slots.makeZodiac IN
        /\ Len(slices) = 12
        /\ \A i \in 1..12 :
              /\ slices[i].num = i - 1
              /\ slices[i].type = ZODIAC[i].name
              /\ slices[i].seventh_house_degree_ut = cfg.first_obj.seventh_house
              /\ SliceStart(slices[(i % 12) + 1])
                    = (SliceStart(slices[i]) + 30) % 360

\* A render of a Transit chart, whose second subject has another seventh
\* house than the first.
C18_Witness ==
    \E svg \in ReturnedSvgs :
        /\ cfg.chart_type = "Transit"
        /\ cfg.second_obj[1].seventh_house # cfg.first_obj.seventh_house
        /\ svg.slots.makeZodiac[12].type = "Pis"
        /\ svg.slots.makeZodiac[12].num = 11

\* The layout context: what the construction computed for the renders.
LayoutFields ==
    {"fire", "earth", "air", "water", "first_circle_radius",
     "second_circle_radius", "third_circle_radius", "main_radius", "width",
     "height", "location", "geolat", "geolon", "active_points",
     "available_planets_setting", "available_kerykeion_celestial_points",
     "t_available_kerykeion_celestial_points", "aspects_list"}

\* C19: no call of makeTemplate, makeWheelOnlyTemplate or
\* makeAspectGridOnlyTemplate changes the element totals, the radii, the
\* size, the location, the coordinates, the active point lists or the
\* aspects list of the instance.
C19_RendersKeepLayout ==
    [][status = "ready" => \A field \in LayoutFields : self'[field] = self[field]]_vars

\* After makeTemplate twice (four assemblies) the element totals are still
\* those of the construction, and they are not all zero.
C19_Witness ==
    /\ status = "ready"
    /\ nrenders = 2
    /\ rendered[<<"makeTemplate", FALSE, FALSE>>] # <<>>
    /\ rendered[<<"makeTemplate", TRUE, FALSE>>] # <<>>
    /\ self.fire + self.earth + self.air + self.water > 0
    /\ self.fire = CtorElements(self).fire

\* C20: on every constructed chart each of fire, earth, air and water is at
\* least 0, and the percentages of every render are taken of the sum of
\* these four: each is within one half of 100 * x / (fire + earth + air +
\* water), an element holding the whole sum shows 100 and an element of
\* score 0 shows 0.
C20_TotalsNormalise ==
    /\ status = "ready" => \A k \in 1..4 : Scores[k] >= 0
    /\ \A svg \in ReturnedSvgs : \A k \in 1..4 :
          /\ 2 * Distance(100 * Scores[k], Percentages(svg)[k] * ElementTotal)
                <= ElementTotal
          /\ Scores[k] = ElementTotal => Percentages(svg)[k] = 100
          /\ Scores[k] = 0 => Percentages(svg)[k] = 0

\* A render of a chart whose points are all in water signs.
C20_Witness ==
    \E svg \in ReturnedSvgs :
        /\ self.water = ElementTotal
        /\ self.water > 0
        /\ Percentages(svg) = <<0, 0, 0, 100>>

\* What the file system does to the writes: nothing, or open fails in a
\* directory, or write fails in a directory.
FileSystems ==
    {[unwritable |-> u, full |-> f] :
        u \in {{}, {"/charts"}, {"~"}}, f \in {{}, {"/tmp"}}}

\* The write methods under failures: every chart type, with all or none of
\* the points active (the template call raises with none), the output
\* directory given or not, and every file system above.
WriteConfigurations ==
    {[Configuration(ct, ValidFirstObject(ct, Liverpool, SignsFrom(4, 1, 2, 3)),
                    <<Paul(NewYork, SignsFrom(0, 0, 0, 0))>>, <<"classic">>,
                    "list", active_points, AspectKinds,
                    Settings(ShippedPoints, ShippedAspects, FullLanguage),
                    SomePool)
        EXCEPT !.new_output_directory = directory, !.filesystem = filesystem] :
        ct \in ChartTypes, active_points \in {AllPoints, <<>>},
        directory \in {<<>>, <<"/charts">>}, filesystem \in FileSystems}

SpecWrites == InitWith(WriteConfigurations) /\ [][NextFiles]_vars

\* The steps of the n-th call, in their order.
StepsOf(n) ==
    LET own == SelectSeq(events, LAMBDA e: e.call = n)
    IN [i \in 1..Len(own) |-> own[i].step]

WriteStepOrder == <<"render", "open", "write", "print">>

\* C21: the steps of every call of makeSVG, makeWheelOnlySVG or
\* makeAspectGridOnlySVG are a beginning of render, open, write, print, each
\* taken once: a step is taken only when every step before it completed;
\* the call returns normally exactly when all four were taken, and else it
\* raises the exception of its last step, the one that failed; the open, the
\* write and the message are of the same file, the one in the output
\* directory of the instance.
C21_RenderOpenWritePrint ==
    \A n \in 1..Len(calls) :
        calls[n].op \in WriteOps =>
            LET steps == StepsOf(n)
                last == steps[Len(steps)]
            IN /\ Len(steps) \in 1..4
               /\ \A i \in 1..Len(steps) :
                     /\ steps[i].kind = WriteStepOrder[i]
                     /\ i < Len(steps) => steps[i].error = ""
                     /\ i > 2 => steps[i].file = steps[2].file
               /\ calls[n].error = last.error
               /\ calls[n].error = "" <=> Len(steps) = 4
               /\ Len(steps) < 4 => last.error # ""

\* A makeSVG call in a directory set after construction, on a full device:
\* the render returned and was kept on the instance, the file was opened,
\* the write raised OSError, and so did the call, with nothing printed.
C21_Witness ==
    /\ Len(calls) = 2
    /\ calls[1].op = "set_output_directory"
    /\ calls[2].op = "makeSVG"
    /\ Len(StepsOf(2)) = 3
    /\ StepsOf(2)[3].kind = "write"
    /\ calls[2].error = "OSError"
    /\ "template" \in self.assigned

\* C22: every render has exactly one title: the first subject's name on the
\* Natal and ExternalNatal charts; the first subject's name, the pack's
\* and_word and the second subject's name on the Synastry chart; the pack's
\* transits word and the day/month/year of the second subject on the Transit
\* chart; the names of the composite model's first and second subject
\* around the pack's and_word on the Composite chart.
C22_TitleByChartType ==
    \A svg \in ReturnedSvgs :
        /\ "stringTitle" \in DOMAIN svg.slots
        /\ svg.slots.stringTitle =
             CASE cfg.chart_type \in {"Natal", "ExternalNatal"} ->
                    <<cfg.first_obj.name>>
               [] cfg.chart_type = "Synastry" ->
                    <<cfg.first_obj.name, " ",
                      [from |-> "language_settings", text |-> "and_word"], " ",
                      cfg.second_obj[1].name>>
               [] cfg.chart_type = "Transit" ->
                    <<[from |-> "language_settings", text |-> "transits"], " ",
                      ToString(cfg.second_obj[1].day), "/",
                      ToString(cfg.second_obj[1].month), "/",
                      ToString(cfg.second_obj[1].year)>>
               [] cfg.chart_type = "Composite" ->
                    <<cfg.first_obj.parts[1].name, " ",
                      [from |-> "language_settings", text |-> "and_word"], " ",
                      cfg.first_obj.parts[2].name>>

\* A render of a Transit chart whose two subjects were born on different
\* days: the title has the second subject's.
C22_Witness ==
    \E svg \in ReturnedSvgs :
        /\ cfg.chart_type = "Transit"
        /\ cfg.first_obj.day # cfg.second_obj[1].day
        /\ svg.slots.stringTitle[3] = ToString(cfg.second_obj[1].day)

\* The aspect summary: every chart type, both grid types, and language
\* packs with and without the titles of the aspect list.
GridConfigurations ==
    {Configuration(ct, ValidFirstObject(ct, Liverpool, SignsFrom(4, 1, 2, 3)),
                   <<Paul(NewYork, SignsFrom(0, 0, 0, 0))>>, <<"classic">>,
                   grid, AllPoints, AspectKinds,
                   Settings(ShippedPoints, ShippedAspects,
                            FullLanguage \ missing), SomePool) :
        ct \in ChartTypes, grid \in {"list", "table"},
        missing \in SUBSET {"couple_aspects", "transit_aspects"}}

SpecGrid == InitWith(GridConfigurations) /\ [][NextDefaultFlags]_vars

\* The title of the aspect list: the pack's string under the key when the
\* pack has it, else the English words.
ListTitle(key, english) ==
    IF key \in cfg.settings.language
    THEN [from |-> "language_settings", text |-> key]
    ELSE [from |-> "default", text |-> english]

\* C23: the aspect summary of a Transit or Synastry chart is never the
\* triangular grid: in the full render it is the list when the grid type is
\* "list", titled by the pack's couple_aspects (else "Couple Aspects") on the
\* Synastry chart and by the pack's transit_aspects (else "Transit Aspects")
\* on the Transit chart, and the rectangular grid when the grid type is
\* "table"; in the aspect-grid-only render it is the rectangular grid with
\* either grid type.  The summary of a Natal, ExternalNatal or Composite
\* chart is the triangular grid in both renders.
C23_AspectSummaryDispatch ==
    \A svg \in ReturnedSvgs :
        LET summary == svg.slots.makeAspectGrid
            dual == cfg.chart_type \in {"Transit", "Synastry"}
            grid_type == cfg.double_chart_aspect_grid_type
        IN /\ dual => summary.drawer # "draw_aspect_grid"
           /\ (svg.template = "chart.xml" /\ dual /\ grid_type = "list") =>
                 /\ summary.drawer = "draw_transit_aspect_list"
                 /\ summary.title =
                       IF cfg.chart_type = "Synastry"
                       THEN ListTitle("couple_aspects", "Couple Aspects")
                       ELSE ListTitle("transit_aspects", "Transit Aspects")
           /\ (svg.template = "chart.xml" /\ dual /\ grid_type = "table") =>
                 summary.drawer = "draw_transit_aspect_grid"
           /\ (svg.template = "aspect_grid_only.xml" /\ dual) =>
                 summary.drawer = "draw_transit_aspect_grid"
           /\ ~dual => summary.drawer = "draw_aspect_grid"

\* A Transit chart with grid type "list" and a pack without transit_aspects,
\* rendered in full and as the grid only: the list under its English title
\* in the one, the rectangular grid in the other.
C23_Witness ==
    /\ cfg.chart_type = "Transit"
    /\ cfg.double_chart_aspect_grid_type = "list"
    /\ "transit_aspects" \notin cfg.settings.language
    /\ \E full \in ReturnedSvgs, only \in ReturnedSvgs :
          /\ full.template = "chart.xml"
          /\ full.slots.makeAspectGrid.title.text = "Transit Aspects"
          /\ only.template = "aspect_grid_only.xml"
          /\ only.slots.makeAspectGrid.drawer = "draw_transit_aspect_grid"

\* The strings of the bottom-left lines a language pack may hold.
MetadataKeys ==
    {"zodiac", "tropical", "ayanamsa", "houses", "houses_system_P",
     "houses_system_W", "lunar_phase", "day", "waxing_gibbous", "full_moon",
     "last_quarter", "apparent_geocentric", "heliocentric", "composite_chart",
     "midpoints"}

\* Packs with none of them, with all of them, and with all but one.
MetadataPacks ==
    {FullLanguage, FullLanguage \cup MetadataKeys}
    \cup {FullLanguage \cup (MetadataKeys \ {key}) : key \in MetadataKeys}

\* The subject with the zodiac and the houses system of the given chart.
WithChart(subject, chart) ==
    [subject EXCEPT
       !.zodiac_type = chart.zodiac_type,
       !.sidereal_mode = chart.sidereal_mode,
       !.houses_system_identifier = chart.houses_system_identifier,
       !.houses_system_name = chart.houses_system_name]

\* The bottom-left lines: every chart type, a first subject with a tropical
\* or a sidereal chart, and every pack above.
MetadataConfigurations ==
    {Configuration(ct,
                   WithChart(ValidFirstObject(ct, Liverpool,
                                              SignsFrom(4, 1, 2, 3)), chart),
                   <<Paul(NewYork, SignsFrom(0, 0, 0, 0))>>, <<"classic">>,
                   "list", AllPoints, AspectKinds,
                   Settings(ShippedPoints, ShippedAspects, language), SomePool) :
        ct \in ChartTypes, chart \in {TropicalChart, SiderealChart},
        language \in MetadataPacks}

SpecMetadata == InitWith(MetadataConfigurations) /\ [][NextDefaultFlags]_vars

\* The pack's string under the key when the pack has it, else the English
\* words.
Resolved(key, english) ==
    IF key \in cfg.settings.language
    THEN [from |-> "language_settings", text |-> key]
    ELSE [from |-> "default", text |-> english]

\* The subject whose lunar phase and perspective the bottom-left lines
\* describe.
DescribedSubject ==
    CASE cfg.chart_type = "Transit" -> cfg.second_obj[1]
      [] cfg.chart_type = "Composite" -> cfg.first_obj.parts[1]
      [] OTHER -> cfg.first_obj

\* C24: on every render of every chart type the houses system name, the
\* zodiac or ayanamsa label, the lunar phase name (on the charts that have
\* the line) and the perspective type of the bottom-left lines are each the
\* pack's string when the pack has the key, and the English default when it
\* has not.
C24_MetadataLocalized ==
    \A svg \in ReturnedSvgs :
        LET first == cfg.first_obj
            described == DescribedSubject
            perspective_line == IF cfg.chart_type = "Composite"
                                THEN svg.slots.bottom_left_2
                                ELSE svg.slots.bottom_left_4
        IN /\ svg.slots.bottom_left_0[1] =
                 Resolved("houses_system_" \o first.houses_system_identifier,
                          first.houses_system_name)
           /\ svg.slots.bottom_left_1[1] =
                 IF first.zodiac_type = "Tropic"
                 THEN Resolved("zodiac", "Zodiac")
                 ELSE Resolved("ayanamsa", "Ayanamsa")
           /\ cfg.chart_type # "Composite" =>
                 svg.slots.bottom_left_3[3] =
                    Resolved(LanguageKey(described.lunar_phase.moon_phase_name),
                             described.lunar_phase.moon_phase_name)
           /\ perspective_line[1] =
                 Resolved(LanguageKey(described.perspective_type),
                          described.perspective_type)

\* The two subjects a composite model was made of.
Constituents == cfg.first_obj.parts

\* That string of the coordinate, with the letters of the compass as labels.
LetteredCoordinate(axis, coord) ==
    [axis |-> axis, coord |-> [num |-> coord, den |-> 1],
     positive_label |->
        [from |-> "language_settings",
         text |-> IF axis = "latitude" THEN "north_letter" ELSE "east_letter"],
     negative_label |->
        [from |-> "language_settings",
         text |-> IF axis = "latitude" THEN "south_letter" ELSE "west_letter"]]

\* C25: on a constructed Composite chart the location is the empty string
\* and geolat and geolon are the arithmetic means of the two constituents'
\* latitudes and longitudes; in every render top_left_1 is the first
\* constituent's local date-time, not abbreviated as a location is, and
\* top_left_2 is the first constituent's latitude and longitude, not a
\* date-time.
C25_CompositeMidpointFields ==
    (status = "ready" /\ cfg.chart_type = "Composite") =>
        /\ self.location = <<>>
        /\ 2 * self.geolat.num =
              (Constituents[1].lat + Constituents[2].lat) * self.geolat.den
        /\ 2 * self.geolon.num =
              (Constituents[1].lng + Constituents[2].lng) * self.geolon.den
        /\ \A svg \in ReturnedSvgs :
              /\ svg.slots.top_left_1 = LocalDateTime(Constituents[1])
              /\ svg.slots.top_left_1 # LocationString(self.location)
              /\ svg.slots.top_left_2 =
                    <<LetteredCoordinate("latitude", Constituents[1].lat), " ",
                      LetteredCoordinate("longitude", Constituents[1].lng)>>

\* A render of a Composite chart whose constituents live at different
\* places, so that neither mean is a constituent's own coordinate, and
\* whose first constituent's city is longer than 35 characters.
C25_Witness ==
    \E svg \in ReturnedSvgs :
        /\ cfg.chart_type = "Composite"
        /\ Constituents[1].lat # Constituents[2].lat
        /\ Constituents[1].lng # Constituents[2].lng
        /\ self.geolat.num # self.geolat.den * Constituents[1].lat
        /\ Len(Constituents[1].city) > LOCATION_MAX_LEN
        /\ svg.slots.top_left_1 = LocalDateTime(Constituents[1])

\* The width in a viewbox string "0 0 <width> <height>".
ViewboxWidth(viewbox) ==
    CASE viewbox = "0 0 820 550.0" -> 820
      [] viewbox = "0 0 1200 546.0" -> 1200
      [] viewbox = "0 0 960 546.0" -> 960

\* C26: in every render of every chart type and grid type the chart_width
\* slot is the width of the viewbox slot: 820 with the basic viewbox, 1200
\* with the wide one, and 960 with the one of the Transit chart with grid
\* type "table".
C26_WidthMatchesViewbox ==
    \A svg \in ReturnedSvgs :
        svg.slots.chart_width = ViewboxWidth(svg.slots.viewbox)

\* The aspect selection: every chart type, every selection of aspect kinds
\* and every list of aspects up to MaxAspects, with all or two of the points
\* active.
SelectionConfigurations ==
    {Configuration(ct, ValidFirstObject(ct, Liverpool, SignsFrom(4, 1, 2, 3)),
                   <<Paul(NewYork, SignsFrom(0, 0, 0, 0))>>, <<"classic">>,
                   "list", active_points, active_aspects,
                   Settings(ShippedPoints, ShippedAspects, FullLanguage), pool) :
        ct \in ChartTypes, active_points \in {AllPoints, <<"Sun", "Moon">>},
        active_aspects \in SUBSET AspectKinds, pool \in AspectPools}

SpecSelection == InitWith(SelectionConfigurations) /\ [][NextDefaultFlags]_vars

\* The aspects of the pool between two points the caller made active, of a
\* kind the caller made active.
SelectedFromPool ==
    SelectSeq(cfg.aspect_pool, LAMBDA a:
        /\ a.p1_name \in {cfg.active_points[i] : i \in 1..Len(cfg.active_points)}
        /\ a.p2_name \in {cfg.active_points[i] : i \in 1..Len(cfg.active_points)}
        /\ a.aspect \in cfg.active_aspects)

\* Whose point the first end of an aspect is, and whose the second.
FirstEndOwner ==
    IF cfg.chart_type = "Transit" THEN cfg.second_obj[1].name
    ELSE cfg.first_obj.name

SecondEndOwner ==
    IF cfg.chart_type = "Synastry" THEN cfg.second_obj[1].name
    ELSE cfg.first_obj.name

\* C27: on every constructed chart of every chart type the aspects list is
\* what the caller's active_points and active_aspects select, no aspect of a
\* kind the caller left out among them; on the Transit chart the aspects go
\* from the second subject's points to the first's, on the Synastry chart
\* from the first's to the second's.
C27_AspectsFollowSelections ==
    status = "ready" =>
        /\ Len(self.aspects_list) = Len(SelectedFromPool)
        /\ \A i \in 1..Len(self.aspects_list) :
              /\ self.aspects_list[i].aspect \in cfg.active_aspects
              /\ self.aspects_list[i] =
                    [p1_name |-> SelectedFromPool[i].p1_name,
                     p1_owner |-> FirstEndOwner,
                     p2_name |-> SelectedFromPool[i].p2_name,
                     p2_owner |-> SecondEndOwner,
                     aspect |-> SelectedFromPool[i].aspect]

\* The slots an assembly defines (the color slots apart).
AssembledSlots ==
    {"color_style_tag", "viewbox", "chart_width", "chart_height",
     "stringTitle", "top_left_0", "top_left_1", "top_left_2", "top_left_3",
     "top_left_4", "top_left_5", "bottom_left_0", "bottom_left_1",
     "bottom_left_2", "bottom_left_3", "bottom_left_4", "transitRing",
     "degreeRing", "first_circle", "second_circle", "third_circle",
     "makeAspectGrid", "makeAspects", "makeZodiac", "makeHouses",
     "makeHousesGrid", "makePlanets", "makePlanetGrid", "fire_string",
     "earth_string", "air_string", "water_string", "lunar_phase_rotate",
     "lunar_phase_circle_center_x", "lunar_phase_circle_radius"}

\* C28: the dictionary of every render that completed, of each chart type
\* and grid type, defines exactly the same slots, the ones listed above, so
\* no branch on the chart type leaves one undefined; and a render call
\* leaves the instance as it was, so the dictionary is not kept on it and
\* every call assembles its own.
C28_SlotMapTotal ==
    /\ [](\A svg \in ReturnedSvgs : DOMAIN svg.slots = AssembledSlots)
    /\ [][nrenders' = nrenders + 1 => self' = self]_vars

\* Renders of a Composite chart by two different operations, the two
\* dictionaries with the same slots.
C28_Witness ==
    /\ cfg.chart_type = "Composite"
    /\ nrenders = 2
    /\ Cardinality(ReturnedSvgs) = 2
    /\ \A svg \in ReturnedSvgs : "top_left_0" \in DOMAIN svg.slots
    /\ \A one, other \in ReturnedSvgs : DOMAIN one.slots = DOMAIN other.slots

\* The k-th of a set of indexes, in increasing order.
KthOf(indexes, k) ==
    CHOOSE i \in indexes : Cardinality({j \in indexes : j <= i}) = k

\* C29: on every constructed chart available_planets_setting is the
\* settings' celestial points whose name is in active_points, in the order
\* of the settings, each marked is_active (a name the settings do not have
\* adds nothing); available_kerykeion_celestial_points has the same length,
\* its k-th element the first subject's point named by the k-th of them; on
\* the Transit and Synastry charts the second subject's list is the same in
\* length and order; and the element calculator reads for the k-th weight
\* the sign of the k-th point, so that the four totals are those of these
\* pairs.
C29_ActivePointSelection ==
    status = "ready" =>
        LET available == self.available_planets_setting
            points == self.available_kerykeion_celestial_points
            t_points == self.t_available_kerykeion_celestial_points
        IN /\ Len(available) = Cardinality(ActiveBodies)
           /\ Len(points) = Len(available)
           /\ \A k \in 1..Len(available) :
                 LET body == Bodies[KthOf(ActiveBodies, k)] IN
                 /\ available[k] = [body EXCEPT !.is_active = TRUE]
                 /\ points[k] = cfg.first_obj.points[Lower(body.name)]
                 /\ PointsSign(self)[k] = points[k].sign_num
                 /\ cfg.chart_type \in {"Transit", "Synastry"} =>
                       t_points[k] = cfg.second_obj[1].points[Lower(body.name)]
           /\ cfg.chart_type \in {"Transit", "Synastry"} =>
                 Len(t_points) = Len(available)
           /\ Scores = <<ExpectedElement("fire"), ExpectedElement("earth"),
                         ExpectedElement("air"), ExpectedElement("water")>>

\* A Synastry chart whose caller named the points in another order than the
\* settings, and one the settings do not have; the second subject's points
\* are in other signs than the first's.
C29_Witness ==
    /\ status = "ready"
    /\ cfg.chart_type = "Synastry"
    /\ Len(cfg.active_points) = 5
    /\ cfg.active_points[1] = "Mercury"
    /\ Len(self.available_planets_setting) = 4
    /\ self.available_planets_setting[1].name = "Sun"
    /\ self.t_available_kerykeion_celestial_points[1].sign_num
          # self.available_kerykeion_celestial_points[1].sign_num

\* The subjects of the chart.
ChartSubjects == {cfg.first_obj} \cup {cfg.second_obj[i] : i \in 1..Len(cfg.second_obj)}

\* The lunar phase lines of a render are about that subject's lunar phase.
TextOf(svg, subject) ==
    /\ svg.slots.bottom_left_2[5] = ToString(subject.lunar_phase.moon_phase)
    /\ svg.slots.bottom_left_3[3].text
          \in {subject.lunar_phase.moon_phase_name,
               LanguageKey(subject.lunar_phase.moon_phase_name)}

\* The three parameters of the lunar phase icon of a render are computed
\* from that subject's lunar phase.
IconOf(svg, subject) ==
    \A slot \in {"lunar_phase_rotate", "lunar_phase_circle_center_x",
                 "lunar_phase_circle_radius"} :
        svg.slots[slot].degrees_between_sun_and_moon
            = subject.lunar_phase.degrees_between_s_m

\* C30: in every render of a chart that has the lunar phase lines (every
\* chart type but Composite) the two lines and the three parameters of the
\* icon are of the lunar phase of one and the same subject; on the Transit
\* chart that subject is the second one.
C30_LunarPhaseOfOneSubject ==
    \A svg \in ReturnedSvgs :
        cfg.chart_type # "Composite" =>
            /\ \E subject \in ChartSubjects :
                  TextOf(svg, subject) /\ IconOf(svg, subject)
            /\ cfg.chart_type = "Transit" => TextOf(svg, cfg.second_obj[1])

====
